---- MODULE Spec2Model ----
(***************************************************************************)
(* Model of the PeperAI fuzzy-inference core:                              *)
(*   - ANFISModel / ANFISTrainer      (backend/app/utils/anfis_trainer.py) *)
(*   - ActiveLearningSystem           (backend/app/utils/active_learning.py)*)
(*   - BellPepperDatasetTrainer       (backend/app/utils/dataset_trainer.py)*)
(*   - load_trained_models / predict_with_anfis      (backend/app/main.py) *)
(*                                                                         *)
(* Numbers.  The program computes in IEEE doubles; the model computes in   *)
(* fixed point:                                                            *)
(*   features, centers, widths   in units of 1/XScale   (0.01)             *)
(*   rule consequents            in units of 1/ConsScale (0.1)             *)
(*   membership degrees          in units of 1/DScale   (0.25)             *)
(*   probabilities               in units of 1/PScale   (0.25)             *)
(*   losses                      in units of 0.001                         *)
(* numpy arrays are heap objects (heap[addr]) because the program updates  *)
(* them in place and shares them between references.                       *)
(***************************************************************************)
EXTENDS Integers, Sequences, FiniteSets, TLC

\* ------------------------------------------------------------- bounds
MaxEpochs == 3        \* largest `epochs` argument tried
NTrain == 2           \* size of the training set
NVal == 2             \* size of the validation set of the train runs
MaxObjects == 2       \* ANFISModel objects constructed in one behaviour
MaxHeap == 12         \* arrays allocated in one behaviour before loading stops

\* ------------------------------------------------- program constants
XScale == 100         \* 1.0 in feature units
ConsScale == 10       \* 1.0 in consequent units
DScale == 4           \* 1.0 in membership-degree units
PScale == 4           \* 1.0 in probability units
PHalf == 2            \* 0.5 in probability units
InitWidth == 20       \* np.ones(n) * 0.2
WidthFloor == 1       \* max(widths[j], 0.01)
SatPos == 37          \* 1/(1+exp(-x)) is 1.0 in doubles from about x = 37
SatNeg == 710         \* exp(-x) overflows, so the sigmoid is 0.0, from about x = -710
Infinity == 1000000   \* float('inf')
DefaultNInputs == 11
DefaultNRules == 7
DefaultNMF == 7
TrainerNMF == 7       \* ANFISTrainer.train_model: n_membership_functions=7

None == 0             \* Python's None, as an object id / address

Abs(x) == IF x < 0 THEN -x ELSE x
Max(a, b) == IF a >= b THEN a ELSE b
Min(a, b) == IF a <= b THEN a ELSE b

RECURSIVE SumSeq(_)
SumSeq(s) == IF s = <<>> THEN 0 ELSE Head(s) + SumSeq(Tail(s))

RECURSIVE ProdSeq(_)
ProdSeq(s) == IF s = <<>> THEN 1 ELSE Head(s) * ProdSeq(Tail(s))

\* ------------------------------------------------------ construction
\* np.linspace(0, 1, n): n evenly spaced centers, [0.] when n = 1
Linspace(n) == [j \in 1..n |-> IF n = 1 THEN 0 ELSE ((j - 1) * XScale) \div (n - 1)]

\* np.ones(n) * 0.2
InitWidths(n) == [j \in 1..n |-> InitWidth]

\* np.random.randn(n_rules, n_inputs + 1) * 0.1 : the values are decided by
\* the generator's seed; entry (k, i) of the draw
Randn(seed, k, i) == ((seed * (3 * k + i)) % 5) - 2

InitConsequents(n_rules, n_inputs, seed) ==
    [k \in 1..n_rules |-> [i \in 1..(n_inputs + 1) |-> Randn(seed, k, i)]]

EmptyHistory == [loss |-> <<>>, val_loss |-> <<>>, accuracy |-> <<>>, val_accuracy |-> <<>>]

\* ANFISModel.__init__ : the arrays it allocates, in allocation order
\* (centers and widths of input 0, of input 1, ..., then the consequents)
NewArrays(n_inputs, n_rules, n_mf, seed) ==
    [a \in 1..(2 * n_inputs + 1) |->
        IF a = 2 * n_inputs + 1 THEN InitConsequents(n_rules, n_inputs, seed)
        ELSE IF a % 2 = 1 THEN Linspace(n_mf) ELSE InitWidths(n_mf)]

\* self.best_weights = None
NoWeights == [membership_params |-> [centers |-> <<>>, widths |-> <<>>], rule_consequents |-> None]

\* ANFISModel.__init__ : the object, its arrays allocated from address base+1
NewModel(base, n_inputs, n_rules, n_mf) ==
    [n_inputs |-> n_inputs,
     n_rules |-> n_rules,
     n_membership_functions |-> n_mf,
     membership_params |-> [centers |-> [i \in 1..n_inputs |-> base + 2 * i - 1],
                            widths  |-> [i \in 1..n_inputs |-> base + 2 * i]],
     rule_consequents |-> base + 2 * n_inputs + 1,
     training_history |-> EmptyHistory,
     best_weights |-> NoWeights,
     best_val_loss |-> Infinity,
     patience_counter |-> 0]

\* ------------------------------------------------------ forward pass
\* exp(-0.5 * z^2) for z^2 = z2, rounded to degree units
ExpHalfNeg(z2) == CASE z2 = 0 -> 4 [] z2 = 1 -> 2 [] z2 \in 2..4 -> 1 [] OTHER -> 0

NaN == -1             \* a degree that is not a number (0/0 under exp)

\* gaussian_membership: exp(-0.5 * ((x - center) / width) ** 2)
gaussian_membership(x, center, width) ==
    IF width = 0
    THEN (IF x = center THEN NaN ELSE 0)
    ELSE ExpHalfNeg(((x - center) * (x - center)) \div (width * width))

\* calculate_membership_degrees for one sample x: degree[i][j]
calculate_membership_degrees(h, m, x) ==
    [i \in 1..m.n_inputs |->
        [j \in 1..m.n_membership_functions |->
            gaussian_membership(x[i], h[m.membership_params.centers[i]][j],
                                h[m.membership_params.widths[i]][j])]]

\* generate_rules with the further inputs on the second input's function
generate_rules_FurtherInputsFollow(m, deg) ==
    LET M == m.n_membership_functions
        one == ProdSeq([i \in 1..m.n_inputs |-> DScale])
        fac(k, i) == IF i = 1 THEN deg[1][((k - 1) \div M) + 1]
                     ELSE deg[i][((k - 1) % M) + 1]
    IN [k \in 1..m.n_rules |->
            IF k > M * M THEN one
            ELSE IF \E i \in 1..m.n_inputs : fac(k, i) = NaN THEN NaN
            ELSE ProdSeq([i \in 1..m.n_inputs |-> fac(k, i)])]

\* generate_rules for one sample: rule k-1 (0-based) takes membership function
\* (k-1) div M of input 0, (k-1) mod M of input 1 and function 0 of the others;
\* a rule the double loop never reaches keeps np.ones' 1.0
generate_rules(m, deg) ==
    LET M == m.n_membership_functions
        one == ProdSeq([i \in 1..m.n_inputs |-> DScale])
        fac(k, i) == IF i = 1 THEN deg[1][((k - 1) \div M) + 1]
                     ELSE IF i = 2 THEN deg[2][((k - 1) % M) + 1]
                     ELSE deg[i][1]
    IN [k \in 1..m.n_rules |->
            IF k > M * M THEN one
            ELSE IF \E i \in 1..m.n_inputs : fac(k, i) = NaN THEN NaN
            ELSE ProdSeq([i \in 1..m.n_inputs |-> fac(k, i)])]

\* calculate_rule_outputs for one sample: np.dot(x, c[:-1]) + c[-1]
calculate_rule_outputs(h, m, x) ==
    LET rc == h[m.rule_consequents]
    IN [k \in 1..m.n_rules |->
            SumSeq([i \in 1..m.n_inputs |-> rc[k][i] * x[i]])
              + rc[k][m.n_inputs + 1] * XScale]

\* 1 / (1 + np.exp(-output)) for output = num / den (den > 0), in probability
\* units; num is in units of 1/(XScale*ConsScale)
Sigmoid(num, den) ==
    IF num = 0 THEN PHalf
    ELSE IF num >= SatPos * XScale * ConsScale * den THEN PScale
    ELSE IF num > 0 THEN 3
    ELSE IF num <= -(SatNeg * XScale * ConsScale * den) THEN 0
    ELSE 1

PNaN == -1            \* a probability that is not a number

\* forward_pass for one sample: the weighted average of the rule outputs,
\* its denominator replaced by 1e-10 when it is zero, through the sigmoid
forward_pass(h, m, x) ==
    LET s == generate_rules(m, calculate_membership_degrees(h, m, x))
        o == calculate_rule_outputs(h, m, x)
        weighted_sum == SumSeq([k \in 1..m.n_rules |-> s[k] * o[k]])
        rule_strength_sum == SumSeq(s)
    IN IF \E k \in 1..m.n_rules : s[k] = NaN THEN PNaN
       ELSE IF rule_strength_sum = 0 THEN Sigmoid(0, 1)
       ELSE Sigmoid(weighted_sum, rule_strength_sum)

\* predict_proba on a batch
predict_proba(h, m, X) == [s \in 1..Len(X) |-> forward_pass(h, m, X[s])]

\* predict with >= in place of >
predict_AtLeastHalf(h, m, X) ==
    [s \in 1..Len(X) |-> IF forward_pass(h, m, X[s]) >= PHalf THEN 1 ELSE 0]

\* predict on a batch: (y_pred > 0.5).astype(int)
predict(h, m, X) == [s \in 1..Len(X) |-> IF forward_pass(h, m, X[s]) > PHalf THEN 1 ELSE 0]

\* ------------------------------------------------------------- data
\* The data sets of the train runs: feature s of sample i, n columns wide
Feature(s, i) == ((s * 3 + i * 2) % 5) * 25

TrainX(n) == [s \in 1..NTrain |-> [i \in 1..n |-> Feature(s, i)]]
TrainY == [s \in 1..NTrain |-> s % 2]
ValX(n) == [s \in 1..NVal |-> [i \in 1..n |-> Feature(s + 1, i + 1)]]
ValY == [s \in 1..NVal |-> (s + 1) % 2]

\* -log(q) for a probability q of the true class, after the clip to
\* [1e-15, 1 - 1e-15] (backward_pass) or the + 1e-15 (validation)
LogLoss(q) == CASE q = 4 -> 0 [] q = 3 -> 288 [] q = 2 -> 693 [] q = 1 -> 1386 [] OTHER -> 34539

\* -np.mean(y * log(p) + (1 - y) * log(1 - p)) over a batch
BCE(p, y) ==
    SumSeq([s \in 1..Len(y) |-> LogLoss(IF y[s] = 1 THEN p[s] ELSE PScale - p[s])]) \div Len(y)

\* sklearn accuracy_score(y, (p > 0.5).astype(int)), in percent
Accuracy(p, y) ==
    (100 * Cardinality({s \in 1..Len(y) : (IF p[s] > PHalf THEN 1 ELSE 0) = y[s]})) \div Len(y)

\* ------------------------------------------------------------- state
VARIABLES
    heap,          \* numpy arrays by address: heap[a] is the array's contents
    objs,          \* the ANFISModel objects constructed so far, by object id
    tr,            \* the frame of the running ANFISModel.train call
    epoch_params,  \* history variable: the parameter values at the end of each epoch
    fs,            \* the model files on disk, by file name
    trainer_model, \* ANFISTrainer.model: an object id, or None
    call,          \* the last call made: its name and file argument
    raised,        \* the exception the last call raised, "" when it returned
    loaded_from,   \* history variable: per object, what the saver of the file it loaded was
    models_dir,    \* main.py: the class indices i whose ensemble_anfis_class_i.pkl exists
    preprocess_file, \* main.py: whether ensemble_preprocessing.pkl exists
    trained_models,  \* main.py global: the loaded class models, in list order
    preprocessing_data, \* main.py global: None or the unpickled preprocessing record
    label_mapping, \* main.py global: the class names by class index
    mc,            \* BellPepperDatasetTrainer: the last train_multi_class_anfis call
    out,           \* the result of the last ensemble inference
    al,            \* the frame of ActiveLearningSystem.active_learning_loop
    ret,           \* the value the last call of a pure method returned
    rng,           \* the state of the global np.random generator, Unseeded before a seed
    cur,           \* the thread that is running: tr is its train frame
    parked,        \* the train frame of the thread that is not running
    reference,     \* history variable: the results of the first of two seeded runs
    gen,           \* BellPepperSyntheticGenerator: its output_dir and the last call
    pl             \* the frame of BellPepperTrainingPipeline.run_complete_pipeline

trainVars == <<heap, objs, tr, epoch_params>>
persistVars == <<fs, trainer_model, loaded_from>>
serveVars == <<models_dir, preprocess_file, trained_models, preprocessing_data, label_mapping>>
ensVars == <<serveVars, mc, out>>
seedVars == <<rng, cur, parked, reference>>
auxVars == <<ret, seedVars, gen, pl>>

\* a model's parameters by value
ParamsOf(h, m) ==
    [centers |-> [i \in 1..m.n_inputs |-> h[m.membership_params.centers[i]]],
     widths |-> [i \in 1..m.n_inputs |-> h[m.membership_params.widths[i]]],
     rule_consequents |-> h[m.rule_consequents]]

\* what a train call finds on a model no train call has touched
FreshEntry ==
    [n_history |-> 0, patience_counter |-> 0, best_val_loss |-> Infinity,
     best_weights |-> NoWeights]

\* what a train call finds on the model: the length of its history and its
\* early-stopping fields
EntryOf(m) ==
    [n_history |-> Len(m.training_history.loss), patience_counter |-> m.patience_counter,
     best_val_loss |-> m.best_val_loss, best_weights |-> m.best_weights]

IdleFrame ==
    [pc |-> "idle", self |-> None, epochs |-> 0, patience |-> 0, batch_size |-> 0,
     n_batches |-> 0, epoch |-> 0, batch_idx |-> 0, train_loss |-> 0,
     indices |-> <<>>, batches |-> <<>>, entry |-> FreshEntry]
\* entry is a history variable: what the call found on the model
\* batches is a history variable: the mini-batches of the current epoch, each
\* with its sample indices, its loss and the parameters it found and left

\* the gradient steps learning_rate * grad of one backward pass: what the
\* batch makes them is data the model does not compute
GradStep == 20
GradChoices ==
    {[dc |-> 0, dw |-> 0, dr |-> 0],
     [dc |-> GradStep, dw |-> GradStep, dr |-> 1],
     [dc |-> -GradStep, dw |-> -GradStep, dr |-> -1]}

\* the file names under ANFISTrainer.model_save_path
Files == {"anfis_model.pkl"}

\* a file's contents: NoFile when it does not exist, else the pickled model_data
NoFile == [exists |-> FALSE]

\* the probe batch predictions are compared on: every sample over three feature values
RECURSIVE ProbeX(_)
ProbeX(n) ==
    IF n = 0 THEN {<<>>}
    ELSE {Append(x, v) : x \in ProbeX(n - 1), v \in {0, 50, 100}}

\* what a load is compared with: the saver's fields by value and its predictions
SaverView(h, m) ==
    [n_inputs |-> m.n_inputs, n_rules |-> m.n_rules,
     n_membership_functions |-> m.n_membership_functions,
     params |-> ParamsOf(h, m),
     training_history |-> m.training_history,
     proba |-> [x \in ProbeX(m.n_inputs) |-> forward_pass(h, m, x)]]

NotLoaded == [loaded |-> FALSE]

\* the sizes an object has (before a load: those its constructor was given)
CtorView(m) == [n_inputs |-> m.n_inputs, n_rules |-> m.n_rules,
                n_membership_functions |-> m.n_membership_functions]

\* ------------------------------------------------------- ANFISModel
\* ANFISModel(n_inputs, n_rules, n_membership_functions)
Construct(n_inputs, n_rules, n_mf, seed) ==
    /\ tr.pc \in {"idle", "returned"}
    /\ Len(objs) < MaxObjects
    /\ objs' = Append(objs, NewModel(Len(heap), n_inputs, n_rules, n_mf))
    /\ heap' = heap \o NewArrays(n_inputs, n_rules, n_mf, seed)
    /\ loaded_from' = Append(loaded_from, NotLoaded)
    /\ call' = [op |-> "ANFISModel", file |-> ""]
    /\ raised' = ""
    /\ UNCHANGED <<tr, epoch_params, fs, trainer_model>>
    /\ UNCHANGED <<ensVars, al, auxVars>>

\* train(): entry, n_batches = (n_samples + batch_size - 1) // batch_size
TrainBegin(id, epochs, patience, batch_size) ==
    /\ tr.pc \in {"idle", "returned"}
    /\ id \in 1..Len(objs)
    /\ objs[id].training_history.loss = <<>>
    /\ tr' = [IdleFrame EXCEPT !.pc = IF epochs = 0 THEN "restore" ELSE "shuffle",
                               !.self = id, !.epochs = epochs, !.patience = patience,
                               !.batch_size = batch_size,
                               !.n_batches = (NTrain + batch_size - 1) \div batch_size]
    /\ epoch_params' = <<>>
    /\ call' = [op |-> "train", file |-> ""]
    /\ raised' = ""
    /\ UNCHANGED <<heap, objs, persistVars>>
    /\ UNCHANGED <<ensVars, al, auxVars>>

\* train() called on a model an earlier train call has run epochs on: the
\* same entry, on the fields the earlier call left
Retrain(id, epochs, patience, batch_size) ==
    /\ tr.pc = "returned"
    /\ id \in 1..Len(objs)
    /\ objs[id].training_history.loss # <<>>
    /\ Len(objs[id].training_history.loss) < MaxEpochs
    /\ tr' = [IdleFrame EXCEPT !.pc = IF epochs = 0 THEN "restore" ELSE "shuffle",
                               !.self = id, !.epochs = epochs, !.patience = patience,
                               !.batch_size = batch_size,
                               !.n_batches = (NTrain + batch_size - 1) \div batch_size,
                               !.entry = EntryOf(objs[id])]
    /\ epoch_params' = <<>>
    /\ call' = [op |-> "train", file |-> ""]
    /\ raised' = ""
    /\ UNCHANGED <<heap, objs, persistVars>>
    /\ UNCHANGED <<ensVars, al, auxVars>>

\* train(): np.random.permutation(n_samples) at the top of an epoch
Shuffle(perm) ==
    /\ tr.pc = "shuffle"
    /\ tr' = [tr EXCEPT !.pc = "batch", !.indices = perm, !.batch_idx = 0, !.train_loss = 0,
                        !.batches = <<>>]
    /\ UNCHANGED <<heap, objs, epoch_params, persistVars, call, raised>>
    /\ UNCHANGED <<ensVars, al, auxVars>>

\* backward_pass without the floor of the widths
UpdatedHeap_NoFloor(h, m, g) ==
    [a \in DOMAIN h |->
        IF a = m.rule_consequents
        THEN [k \in DOMAIN h[a] |-> [i \in DOMAIN h[a][k] |-> h[a][k][i] - g.dr]]
        ELSE IF \E i \in 1..m.n_inputs : a = m.membership_params.centers[i]
        THEN [j \in DOMAIN h[a] |-> h[a][j] - g.dc]
        ELSE IF \E i \in 1..m.n_inputs : a = m.membership_params.widths[i]
        THEN [j \in DOMAIN h[a] |-> h[a][j] - g.dw]
        ELSE h[a]]

\* backward_pass: the arrays after the in-place updates
\*   self.rule_consequents[i] -= learning_rate * grad_consequent
\*   centers[j] -= learning_rate * grad_center
\*   widths[j] -= learning_rate * grad_width; widths[j] = max(widths[j], 0.01)
UpdatedHeap(h, m, g) ==
    [a \in DOMAIN h |->
        IF a = m.rule_consequents
        THEN [k \in DOMAIN h[a] |-> [i \in DOMAIN h[a][k] |-> h[a][k][i] - g.dr]]
        ELSE IF \E i \in 1..m.n_inputs : a = m.membership_params.centers[i]
        THEN [j \in DOMAIN h[a] |-> h[a][j] - g.dc]
        ELSE IF \E i \in 1..m.n_inputs : a = m.membership_params.widths[i]
        THEN [j \in DOMAIN h[a] |-> Max(h[a][j] - g.dw, WidthFloor)]
        ELSE h[a]]

\* the batch loop left after its first batch
LastBatch_First(batch_idx, n_batches) == batch_idx + 1 >= 1

\* train(): for batch_idx in range(n_batches) is exhausted after this batch
LastBatch(batch_idx, n_batches) == batch_idx + 1 = n_batches

\* train(): one mini-batch, batch_loss = self.backward_pass(X_batch, y_batch)
BackwardPass(g) ==
    /\ tr.pc = "batch"
    /\ LET m == objs[tr.self]
           start_idx == tr.batch_idx * tr.batch_size
           end_idx == Min(start_idx + tr.batch_size, NTrain)
           batch == SubSeq(tr.indices, start_idx + 1, end_idx)
           X_batch == [b \in 1..Len(batch) |-> TrainX(m.n_inputs)[batch[b]]]
           y_batch == [b \in 1..Len(batch) |-> TrainY[batch[b]]]
           batch_loss == BCE(predict_proba(heap, m, X_batch), y_batch)
       IN /\ heap' = UpdatedHeap(heap, m, g)
          /\ tr' = [tr EXCEPT !.train_loss = @ + batch_loss,
                              !.batch_idx = @ + 1,
                              !.pc = IF LastBatch(tr.batch_idx, tr.n_batches)
                                     THEN "validate" ELSE "batch",
                              !.batches = Append(@, [indices |-> batch,
                                                     loss |-> batch_loss,
                                                     before |-> ParamsOf(heap, m),
                                                     after |-> ParamsOf(UpdatedHeap(heap, m, g), m)])]
    /\ UNCHANGED <<objs, epoch_params, persistVars, call, raised>>
    /\ UNCHANGED <<ensVars, al, auxVars>>

\* dict.copy(): a new dict holding the same array references
DictCopy(d) == d

\* the early-stopping test with > in place of >=
EarlyStop_Late(patience_counter, patience) == patience_counter > patience

\* train(): if self.patience_counter >= patience: break
EarlyStop(patience_counter, patience) == patience_counter >= patience

\* train(): the end of an epoch: validation, metrics, history, early stopping
EndEpoch ==
    /\ tr.pc = "validate"
    /\ LET m == objs[tr.self]
           train_loss == tr.train_loss \div tr.n_batches
           y_val_pred == predict_proba(heap, m, ValX(m.n_inputs))
           val_loss == BCE(y_val_pred, ValY)
           train_acc == Accuracy(predict_proba(heap, m, TrainX(m.n_inputs)), TrainY)
           val_acc == Accuracy(y_val_pred, ValY)
           hist == [loss |-> Append(m.training_history.loss, train_loss),
                    val_loss |-> Append(m.training_history.val_loss, val_loss),
                    accuracy |-> Append(m.training_history.accuracy, train_acc),
                    val_accuracy |-> Append(m.training_history.val_accuracy, val_acc)]
           improved == val_loss < m.best_val_loss
           counter == IF improved THEN 0 ELSE m.patience_counter + 1
       IN /\ heap' = IF improved THEN Append(heap, heap[m.rule_consequents]) ELSE heap
          /\ objs' = [objs EXCEPT ![tr.self] =
                [m EXCEPT !.training_history = hist,
                          !.best_val_loss = IF improved THEN val_loss ELSE @,
                          !.best_weights =
                              IF improved
                              THEN [membership_params |-> DictCopy(m.membership_params),
                                    rule_consequents |-> Len(heap) + 1]
                              ELSE @,
                          !.patience_counter = counter]]
          /\ tr' = [tr EXCEPT !.epoch = @ + 1, !.indices = <<>>,
                              !.pc = IF EarlyStop(counter, tr.patience) \/ tr.epoch + 1 = tr.epochs
                                     THEN "restore" ELSE "shuffle"]
          /\ epoch_params' = Append(epoch_params, ParamsOf(heap, m))
    /\ UNCHANGED <<persistVars, call, raised>>
    /\ UNCHANGED <<ensVars, al, auxVars>>

\* train(): after the loop, "Restore best weights", and return
Restore ==
    /\ tr.pc = "restore"
    /\ LET m == objs[tr.self]
       IN objs' = [objs EXCEPT ![tr.self] =
                IF m.best_weights # NoWeights
                THEN [m EXCEPT !.membership_params = m.best_weights.membership_params,
                               !.rule_consequents = m.best_weights.rule_consequents]
                ELSE m]
    /\ tr' = [tr EXCEPT !.pc = "returned"]
    /\ UNCHANGED <<heap, epoch_params, persistVars, call, raised>>
    /\ UNCHANGED <<ensVars, al, auxVars>>

\* pickle.dump(model_data, f): the six fields, the arrays by value
Pickle(h, m) ==
    [exists |-> TRUE,
     membership_params |->
         [centers |-> [i \in DOMAIN m.membership_params.centers |->
                           h[m.membership_params.centers[i]]],
          widths |-> [i \in DOMAIN m.membership_params.widths |->
                           h[m.membership_params.widths[i]]]],
     rule_consequents |-> h[m.rule_consequents],
     n_inputs |-> m.n_inputs,
     n_rules |-> m.n_rules,
     n_membership_functions |-> m.n_membership_functions,
     training_history |-> m.training_history]

\* pickle.load(f): the arrays of the record, as newly allocated objects, in
\* the order centers and widths of each dict entry, then the consequents
UnpickledArrays(data) ==
    LET n == Len(data.membership_params.centers)
    IN [a \in 1..(2 * n + 1) |->
            IF a = 2 * n + 1 THEN data.rule_consequents
            ELSE IF a % 2 = 1 THEN data.membership_params.centers[(a + 1) \div 2]
            ELSE data.membership_params.widths[a \div 2]]

\* load_model without the assignment of n_rules
LoadedFields_KeepNRules(m, base, data) ==
    LET n == Len(data.membership_params.centers)
    IN [m EXCEPT !.membership_params = [centers |-> [i \in 1..n |-> base + 2 * i - 1],
                                        widths |-> [i \in 1..n |-> base + 2 * i]],
                 !.rule_consequents = base + 2 * n + 1,
                 !.n_inputs = data.n_inputs,
                 !.n_membership_functions = data.n_membership_functions,
                 !.training_history = data.training_history]

\* load_model: the six assignments from model_data, arrays at base+1..
LoadedFields(m, base, data) ==
    LET n == Len(data.membership_params.centers)
    IN [m EXCEPT !.membership_params = [centers |-> [i \in 1..n |-> base + 2 * i - 1],
                                        widths |-> [i \in 1..n |-> base + 2 * i]],
                 !.rule_consequents = base + 2 * n + 1,
                 !.n_inputs = data.n_inputs,
                 !.n_rules = data.n_rules,
                 !.n_membership_functions = data.n_membership_functions,
                 !.training_history = data.training_history]

\* the keys load_model reads from model_data, in the order of its assignments
ModelDataKeys ==
    <<"membership_params", "rule_consequents", "n_inputs", "n_rules",
      "n_membership_functions", "training_history">>

\* the first assignment of load_model whose key model_data lacks; 0 when
\* model_data has all six
FirstLacking(data) ==
    IF \A k \in DOMAIN ModelDataKeys : ModelDataKeys[k] \in DOMAIN data THEN 0
    ELSE CHOOSE k \in DOMAIN ModelDataKeys :
             /\ ModelDataKeys[k] \notin DOMAIN data
             /\ \A j \in 1..(k - 1) : ModelDataKeys[j] \in DOMAIN data

\* pickle.load(f) of a record lacking a key: the arrays load_model gets to
\* assign before the KeyError of assignment k
PartlyUnpickledArrays(data, k) ==
    IF k = 1 THEN <<>>
    ELSE IF k = 2
         THEN LET n == Len(data.membership_params.centers)
              IN [a \in 1..(2 * n) |->
                     IF a % 2 = 1 THEN data.membership_params.centers[(a + 1) \div 2]
                     ELSE data.membership_params.widths[a \div 2]]
         ELSE UnpickledArrays(data)

\* load_model up to the KeyError of assignment k: the assignments before it
PartlyLoadedFields(m, base, data, k) ==
    [m EXCEPT
        !.membership_params =
            IF k > 1
            THEN LET n == Len(data.membership_params.centers)
                 IN [centers |-> [i \in 1..n |-> base + 2 * i - 1],
                     widths |-> [i \in 1..n |-> base + 2 * i]]
            ELSE @,
        !.rule_consequents =
            IF k > 2 THEN base + 2 * Len(data.membership_params.centers) + 1 ELSE @,
        !.n_inputs = IF k > 3 THEN data.n_inputs ELSE @,
        !.n_rules = IF k > 4 THEN data.n_rules ELSE @,
        !.n_membership_functions = IF k > 5 THEN data.n_membership_functions ELSE @]

\* a model file some other writer left under the save path: the record
\* save_model would write for object id, without one of its keys
StoreRecordLacking(id, f, key) ==
    /\ tr.pc \in {"idle", "returned"}
    /\ id \in 1..Len(objs)
    /\ LET data == Pickle(heap, objs[id]) @@ [src |-> SaverView(heap, objs[id])]
       IN fs' = [fs EXCEPT ![f] = [x \in (DOMAIN data) \ {key} |-> data[x]]]
    /\ call' = [op |-> "pickle.dump", file |-> f]
    /\ raised' = ""
    /\ UNCHANGED <<trainVars, trainer_model, loaded_from>>
    /\ UNCHANGED <<ensVars, al, auxVars>>

\* ANFISModel.save_model(filepath)
SaveModel(id, f) ==
    /\ tr.pc \in {"idle", "returned"}
    /\ id \in 1..Len(objs)
    /\ fs' = [fs EXCEPT ![f] = Pickle(heap, objs[id]) @@ [src |-> SaverView(heap, objs[id])]]
    /\ call' = [op |-> "save_model", file |-> f]
    /\ raised' = ""
    /\ UNCHANGED <<trainVars, trainer_model, loaded_from>>
    /\ UNCHANGED <<ensVars, al, auxVars>>

\* ANFISModel.load_model(filepath)
LoadModel(id, f) ==
    /\ tr.pc \in {"idle", "returned"}
    /\ id \in 1..Len(objs)
    /\ call' = [op |-> "load_model", file |-> f]
    /\ IF fs[f].exists /\ FirstLacking(fs[f]) # 0
       THEN /\ Len(heap) < MaxHeap
            /\ heap' = heap \o PartlyUnpickledArrays(fs[f], FirstLacking(fs[f]))
            /\ objs' = [objs EXCEPT ![id] = PartlyLoadedFields(objs[id], Len(heap), fs[f],
                                                               FirstLacking(fs[f]))]
            /\ raised' = "KeyError"
            /\ UNCHANGED loaded_from
       ELSE IF fs[f].exists
       THEN /\ Len(heap) < MaxHeap
            /\ heap' = heap \o UnpickledArrays(fs[f])
            /\ objs' = [objs EXCEPT ![id] = LoadedFields(objs[id], Len(heap), fs[f])]
            /\ loaded_from' = [loaded_from EXCEPT ![id] =
                  [loaded |-> TRUE, src |-> fs[f].src, before |-> CtorView(objs[id])]]
            /\ raised' = ""
       ELSE /\ raised' = "FileNotFoundError"
            /\ UNCHANGED <<heap, objs, loaded_from>>
    /\ UNCHANGED <<tr, epoch_params, fs, trainer_model>>
    /\ UNCHANGED <<ensVars, al, auxVars>>

\* ------------------------------------------------------ ANFISTrainer
DefaultBatchSize == 32

\* ANFISTrainer.train_model: self.model = ANFISModel(n_inputs=X_train.shape[1],
\* n_rules, 7), then self.model.train(...) with the default batch size
TrainModel(n_inputs, n_rules, seed, epochs, patience) ==
    /\ tr.pc \in {"idle", "returned"}
    /\ Len(objs) < MaxObjects
    /\ objs' = Append(objs, NewModel(Len(heap), n_inputs, n_rules, TrainerNMF))
    /\ heap' = heap \o NewArrays(n_inputs, n_rules, TrainerNMF, seed)
    /\ loaded_from' = Append(loaded_from, NotLoaded)
    /\ trainer_model' = Len(objs) + 1
    /\ tr' = [IdleFrame EXCEPT !.pc = IF epochs = 0 THEN "restore" ELSE "shuffle",
                               !.self = Len(objs) + 1, !.epochs = epochs,
                               !.patience = patience, !.batch_size = DefaultBatchSize,
                               !.n_batches = (NTrain + DefaultBatchSize - 1) \div DefaultBatchSize]
    /\ epoch_params' = <<>>
    /\ call' = [op |-> "train_model", file |-> ""]
    /\ raised' = ""
    /\ UNCHANGED fs
    /\ UNCHANGED <<ensVars, al, auxVars>>

\* ANFISTrainer.save_trained_model(filename)
SaveTrainedModel(f) ==
    /\ tr.pc \in {"idle", "returned"}
    /\ call' = [op |-> "save_trained_model", file |-> f]
    /\ IF trainer_model = None
       THEN /\ raised' = "ValueError"
            /\ UNCHANGED fs
       ELSE /\ raised' = ""
            /\ fs' = [fs EXCEPT ![f] = Pickle(heap, objs[trainer_model])
                                          @@ [src |-> SaverView(heap, objs[trainer_model])]]
    /\ UNCHANGED <<trainVars, trainer_model, loaded_from>>
    /\ UNCHANGED <<ensVars, al, auxVars>>

\* load_trained_model without the os.path.exists check: the open() in
\* load_model raises after self.model = ANFISModel() has been assigned
LoadTrainedModel_NoCheck(f) ==
    /\ tr.pc \in {"idle", "returned"}
    /\ call' = [op |-> "load_trained_model", file |-> f]
    /\ Len(objs) < MaxObjects
    /\ trainer_model' = Len(objs) + 1
    /\ IF ~fs[f].exists
       THEN /\ raised' = "FileNotFoundError"
            /\ heap' = heap \o NewArrays(DefaultNInputs, DefaultNRules, DefaultNMF, 1)
            /\ objs' = Append(objs, NewModel(Len(heap), DefaultNInputs, DefaultNRules, DefaultNMF))
            /\ loaded_from' = Append(loaded_from, NotLoaded)
       ELSE /\ heap' = heap \o UnpickledArrays(fs[f])
            /\ objs' = Append(objs, LoadedFields(
                          NewModel(0, DefaultNInputs, DefaultNRules, DefaultNMF),
                          Len(heap), fs[f]))
            /\ loaded_from' = Append(loaded_from,
                  [loaded |-> TRUE, src |-> fs[f].src,
                   before |-> CtorView(NewModel(0, DefaultNInputs, DefaultNRules, DefaultNMF))])
            /\ raised' = ""
    /\ UNCHANGED <<tr, epoch_params, fs>>
    /\ UNCHANGED <<ensVars, al, auxVars>>

\* ANFISTrainer.load_trained_model(filename): raises when the file does not
\* exist; else self.model = ANFISModel() and self.model.load_model(filepath).
\* The arrays of the default-constructed model are unreachable once load_model
\* has replaced them and are left out of the heap.
LoadTrainedModel(f) ==
    /\ tr.pc \in {"idle", "returned"}
    /\ call' = [op |-> "load_trained_model", file |-> f]
    /\ IF ~fs[f].exists
       THEN /\ raised' = "FileNotFoundError"
            /\ UNCHANGED <<heap, objs, trainer_model, loaded_from>>
       ELSE /\ Len(objs) < MaxObjects
            /\ Len(heap) < MaxHeap
            /\ heap' = heap \o UnpickledArrays(fs[f])
            /\ objs' = Append(objs, LoadedFields(
                          NewModel(0, DefaultNInputs, DefaultNRules, DefaultNMF),
                          Len(heap), fs[f]))
            /\ loaded_from' = Append(loaded_from,
                  [loaded |-> TRUE, src |-> fs[f].src,
                   before |-> CtorView(NewModel(0, DefaultNInputs, DefaultNRules, DefaultNMF))])
            /\ trainer_model' = Len(objs) + 1
            /\ raised' = ""
    /\ UNCHANGED <<tr, epoch_params, fs>>
    /\ UNCHANGED <<ensVars, al, auxVars>>

\* ------------------------------------------------------------ queries
\* the largest batch a query is made with
MaxBatch == 2

\* the samples of the query batches: every feature at 0.0 or 1.0
RECURSIVE QueryX(_)
QueryX(n) ==
    IF n = 0 THEN {<<>>}
    ELSE {Append(x, v) : x \in QueryX(n - 1), v \in {0, XScale}}

\* the input batches of the queries: 1..MaxBatch samples
Batches(n) == UNION {[1..k -> QueryX(n)] : k \in 1..MaxBatch}

NoRet == [op |-> "none", id |-> None, X |-> <<>>, value |-> <<>>, proba |-> <<>>]

\* a call model.predict_proba(X); proba records the forward pass's output
PredictProba(id, X) ==
    /\ tr.pc \in {"idle", "returned"}
    /\ id \in 1..Len(objs)
    /\ ret' = [op |-> "predict_proba", id |-> id, X |-> X,
               value |-> predict_proba(heap, objs[id], X),
               proba |-> [s \in 1..Len(X) |-> forward_pass(heap, objs[id], X[s])]]
    /\ call' = [op |-> "predict_proba", file |-> ""]
    /\ raised' = ""
    /\ UNCHANGED <<trainVars, persistVars, ensVars, al, seedVars, gen, pl>>

\* a call model.predict(X); proba records the forward pass's output
Predict(id, X) ==
    /\ tr.pc \in {"idle", "returned"}
    /\ id \in 1..Len(objs)
    /\ ret' = [op |-> "predict", id |-> id, X |-> X,
               value |-> predict(heap, objs[id], X),
               proba |-> [s \in 1..Len(X) |-> forward_pass(heap, objs[id], X[s])]]
    /\ call' = [op |-> "predict", file |-> ""]
    /\ raised' = ""
    /\ UNCHANGED <<trainVars, persistVars, ensVars, al, seedVars, gen, pl>>

\* the widths a caller assigns: zero, or the constructor's 0.2
WidthChoices == {0, InitWidth}

\* model.membership_params[f'input_{i}_widths'][j] = w: the public attribute is
\* written from outside, the array in place
AssignWidth(id, i, j, w) ==
    /\ tr.pc \in {"idle", "returned"}
    /\ id \in 1..Len(objs)
    /\ i \in 1..objs[id].n_inputs
    /\ j \in 1..objs[id].n_membership_functions
    /\ heap' = [heap EXCEPT ![objs[id].membership_params.widths[i]][j] = w]
    /\ call' = [op |-> "assign_width", file |-> ""]
    /\ raised' = ""
    /\ UNCHANGED <<objs, tr, epoch_params, persistVars>>
    /\ UNCHANGED <<ensVars, al, auxVars>>

\* a call model.calculate_membership_degrees(x) on one sample; proba records
\* the widths the Gaussian divided by
MembershipDegrees(id, x) ==
    /\ tr.pc \in {"idle", "returned"}
    /\ id \in 1..Len(objs)
    /\ ret' = [op |-> "calculate_membership_degrees", id |-> id, X |-> <<x>>,
               value |-> calculate_membership_degrees(heap, objs[id], x),
               proba |-> [i \in 1..objs[id].n_inputs |->
                              heap[objs[id].membership_params.widths[i]]]]
    /\ call' = [op |-> "calculate_membership_degrees", file |-> ""]
    /\ raised' = ""
    /\ UNCHANGED <<trainVars, persistVars, ensVars, al, seedVars, gen, pl>>

\* the degrees a membership function takes in the rule queries: 0.0, 0.5, 1.0
DegreeChoices == {0, DScale \div 2, DScale}

\* the membership_degrees dicts of one sample for a model of this shape
DegreeDicts(m) == [1..m.n_inputs -> [1..m.n_membership_functions -> DegreeChoices]]

\* a call model.generate_rules(membership_degrees) on one sample
GenerateRules(id, membership_degrees) ==
    /\ tr.pc \in {"idle", "returned"}
    /\ id \in 1..Len(objs)
    /\ ret' = [op |-> "generate_rules", id |-> id, X |-> membership_degrees,
               value |-> generate_rules(objs[id], membership_degrees),
               proba |-> <<>>]
    /\ call' = [op |-> "generate_rules", file |-> ""]
    /\ raised' = ""
    /\ UNCHANGED <<trainVars, persistVars, ensVars, al, seedVars, gen, pl>>

\* backward_pass: the rule strengths of every sample of the batch
BatchStrengths(h, m, x) ==
    [s \in 1..Len(x) |-> generate_rules(m, calculate_membership_degrees(h, m, x[s]))]

\* backward_pass: learning_rate * grad_consequent for rule i, one quotient
\* <<numerator, denominator>> per input weight and one for the bias:
\*   grad_output = (y_pred - y_true) / len(y_true)
\*   grad_linear = np.mean(grad_output[:, np.newaxis] * rule_strengths[:, i:i+1] * x, axis=0)
\*   grad_bias = np.mean(grad_output * rule_strengths[:, i])
\* the quotients are in units of learning_rate / (PScale * one * XScale),
\* one being 1.0 in rule-strength units
\* (the np.clip of y_pred to [1e-15, 1 - 1e-15] is below the resolution of
\* the probabilities here)
consequent_step(h, m, x, y_true, i) ==
    LET n == Len(y_true)
        y_pred == predict_proba(h, m, x)
        rule_strengths == BatchStrengths(h, m, x)
        grad_output_num == [s \in 1..n |-> y_pred[s] - y_true[s] * PScale]
        grad_output_den == n
        col(j) == [s \in 1..n |-> IF j > m.n_inputs THEN XScale ELSE x[s][j]]
        mean_num(j) == SumSeq([s \in 1..n |->
                           grad_output_num[s] * rule_strengths[s][i] * col(j)[s]])
        mean_den == grad_output_den * n
    IN [j \in 1..(m.n_inputs + 1) |->
            <<mean_num(j), mean_den>>]

\* the consequent updates of a call model.backward_pass(x, y_true): what
\* each rule's weights and bias are decreased by
ConsequentStep(id, x, y_true) ==
    /\ tr.pc \in {"idle", "returned"}
    /\ id \in 1..Len(objs)
    /\ ret' = [op |-> "backward_pass", id |-> id, X |-> [x |-> x, y_true |-> y_true],
               value |-> [i \in 1..objs[id].n_rules |->
                             consequent_step(heap, objs[id], x, y_true, i)],
               proba |-> [y_pred |-> predict_proba(heap, objs[id], x),
                          rule_strengths |-> BatchStrengths(heap, objs[id], x)]]
    /\ call' = [op |-> "backward_pass", file |-> ""]
    /\ raised' = ""
    /\ UNCHANGED <<trainVars, persistVars, ensVars, al, seedVars, gen, pl>>

\* np.random before any np.random.seed call
Unseeded == 0

\* ---------------------------------------------- the global np.random
\* the states the generator cycles through
RngPeriod == 4

\* the generator's state after one draw
Advance(r) == (r % RngPeriod) + 1

\* np.random.permutation(n_samples): decided by the generator's state
PermutationDraw(r) == [i \in 1..NTrain |-> ((i - 1 + r) % NTrain) + 1]

\* the steps lr * grad of backward_pass on a batch: grad_output is
\* (y_pred - y_true) / n, and every gradient is a mean of grad_output times
\* non-negative factors, so the steps follow the sign of the batch's error
BatchGradient(h, m, X_batch, y_batch) ==
    LET p == predict_proba(h, m, X_batch)
        error == SumSeq([s \in 1..Len(y_batch) |-> p[s] - y_batch[s] * PScale])
    IN IF error > 0 THEN [dc |-> GradStep, dw |-> GradStep, dr |-> 1]
       ELSE IF error < 0 THEN [dc |-> -GradStep, dw |-> -GradStep, dr |-> -1]
       ELSE [dc |-> 0, dw |-> 0, dr |-> 0]

\* the sizes of the class models of the seeded runs
ClassModelShape == <<1, 1, 2>>

NoView == [trained |-> FALSE]
NoReference ==
    [phase |-> 0, seed |-> Unseeded, epochs |-> 0, patience |-> 0, batch_size |-> 0,
     results |-> <<NoView, NoView>>]

\* the train frame of a thread
FrameOf(thread) == IF cur = thread THEN tr ELSE parked

\* what a finished train call left: the parameters by value and the history
ResultView(frame) ==
    IF frame.pc = "returned"
    THEN [trained |-> TRUE,
          params |-> ParamsOf(heap, objs[frame.self]),
          training_history |-> objs[frame.self].training_history]
    ELSE NoView

\* np.random.seed(s) at the start of a run, and the run's arguments
SeedRun(s, epochs, patience, batch_size) ==
    /\ reference.phase = 0
    /\ tr.pc = "idle"
    /\ rng' = s
    /\ reference' = [NoReference EXCEPT !.phase = 1, !.seed = s, !.epochs = epochs,
                                        !.patience = patience, !.batch_size = batch_size]
    /\ call' = [op |-> "np.random.seed", file |-> ""]
    /\ raised' = ""
    /\ UNCHANGED <<trainVars, persistVars, ensVars, al, ret, cur, parked, gen, pl>>

\* one round of the class loop of train_multi_class_anfis in the running
\* thread: model = ANFISModel(...), whose consequents are drawn from the
\* global generator, then the entry of model.train(...)
SeededTrainClass ==
    /\ rng # Unseeded
    /\ tr.pc = "idle"
    /\ objs' = Append(objs, NewModel(Len(heap), ClassModelShape[1], ClassModelShape[2],
                                     ClassModelShape[3]))
    /\ heap' = heap \o NewArrays(ClassModelShape[1], ClassModelShape[2],
                                 ClassModelShape[3], rng)
    /\ rng' = Advance(rng)
    /\ loaded_from' = Append(loaded_from, NotLoaded)
    /\ tr' = [IdleFrame EXCEPT !.pc = IF reference.epochs = 0 THEN "restore" ELSE "shuffle",
                               !.self = Len(objs) + 1, !.epochs = reference.epochs,
                               !.patience = reference.patience,
                               !.batch_size = reference.batch_size,
                               !.n_batches = (NTrain + reference.batch_size - 1)
                                                \div reference.batch_size]
    /\ epoch_params' = <<>>
    /\ call' = [op |-> "train", file |-> ""]
    /\ raised' = ""
    /\ UNCHANGED <<fs, trainer_model, ensVars, al, ret, cur, parked, reference, gen, pl>>

\* train(): indices = np.random.permutation(n_samples), drawn from the
\* global generator
SeededShuffle ==
    /\ rng # Unseeded
    /\ tr.pc = "shuffle"
    /\ tr' = [tr EXCEPT !.pc = "batch", !.indices = PermutationDraw(rng),
                        !.batch_idx = 0, !.train_loss = 0, !.batches = <<>>]
    /\ rng' = Advance(rng)
    /\ UNCHANGED <<heap, objs, epoch_params, persistVars, call, raised>>
    /\ UNCHANGED <<ensVars, al, ret, cur, parked, reference, gen, pl>>

\* train(): one mini-batch, with the steps the batch determines
BackwardStep ==
    /\ tr.pc = "batch"
    /\ LET m == objs[tr.self]
           start_idx == tr.batch_idx * tr.batch_size
           end_idx == Min(start_idx + tr.batch_size, NTrain)
           batch == SubSeq(tr.indices, start_idx + 1, end_idx)
           X_batch == [b \in 1..Len(batch) |-> TrainX(m.n_inputs)[batch[b]]]
           y_batch == [b \in 1..Len(batch) |-> TrainY[batch[b]]]
       IN BackwardPass(BatchGradient(heap, m, X_batch, y_batch))

\* the second run without the seed call
SecondRun_NoSeed ==
    /\ reference.phase = 1
    /\ tr.pc = "returned"
    /\ parked.pc \in {"idle", "returned"}
    /\ reference' = [reference EXCEPT !.phase = 2,
                        !.results = <<ResultView(FrameOf(1)), ResultView(FrameOf(2))>>]
    /\ rng' = rng
    /\ tr' = IdleFrame
    /\ parked' = IdleFrame
    /\ cur' = 1
    /\ call' = [op |-> "np.random.seed", file |-> ""]
    /\ raised' = ""
    /\ UNCHANGED <<heap, objs, epoch_params, persistVars, ensVars, al, ret, gen, pl>>

\* np.random.seed(s) with the first run's seed, at the start of a second run
\* with the same arguments; the first run's results are kept for comparison
SecondRun ==
    /\ reference.phase = 1
    /\ tr.pc = "returned"
    /\ parked.pc \in {"idle", "returned"}
    /\ reference' = [reference EXCEPT !.phase = 2,
                        !.results = <<ResultView(FrameOf(1)), ResultView(FrameOf(2))>>]
    /\ rng' = reference.seed
    /\ tr' = IdleFrame
    /\ parked' = IdleFrame
    /\ cur' = 1
    /\ call' = [op |-> "np.random.seed", file |-> ""]
    /\ raised' = ""
    /\ UNCHANGED <<heap, objs, epoch_params, persistVars, ensVars, al, ret, gen, pl>>

\* the other thread gets to run. In the first run the class models are
\* trained one after another, so thread 2 starts when thread 1 has returned;
\* in the second run the threads are interleaved at every step
YieldThread ==
    /\ \/ reference.phase = 2
       \/ reference.phase = 1 /\ cur = 1 /\ tr.pc = "returned"
    /\ cur' = 3 - cur
    /\ tr' = parked
    /\ parked' = tr
    /\ UNCHANGED <<heap, objs, epoch_params, persistVars, ensVars, al, ret, rng,
                   reference, gen, pl, call, raised>>

\* --------------------------------------------------- one-vs-all ensemble
\* the classes of the label mapping that prepare_data builds from the labels
NClasses == 3
\* the samples of a training label vector
NLabels == 3

\* self.categories, in the order LabelEncoder sorts them
Categories == <<"damaged", "dried", "old", "ripe", "unripe">>
\* the label mapping pickled with the preprocessing data: {i: label}
SavedLabels == SubSeq(Categories, 1, NClasses)
\* load_trained_models: the fallback label mapping for the demo
FallbackLabels == <<"damaged", "dried", "old", "ripe", "unripe">>
\* f'class_{i}', the default of label_mapping.get
DefaultNames == <<"class_0", "class_1", "class_2", "class_3", "class_4">>

\* a quotient num / den as numpy computes it: <<num, den>>, nan when 0 / 0
Quot(num, den) == <<num, den>>
IsNaN(q) == q[1] = 0 /\ q[2] = 0

\* the scores predict_proba returns for one sample, one per model
RawScores(n) == [1..n -> {0, 1, PScale}]

NoOut == [kind |-> "none", names |-> <<>>, raw |-> <<>>, probabilities |-> <<>>,
          src |-> <<>>]
\* preprocessing_data = None
NoPreprocessing == [loaded |-> FALSE, label_mapping |-> <<>>]
NoCall == [called |-> FALSE, y_train |-> <<>>, y_val |-> <<>>, models |-> <<>>]

\* len(np.unique(y))
NUnique(y) == Cardinality({y[s] : s \in DOMAIN y})

\* (y == class_idx).astype(int)
Binary(y, class_idx) == [s \in DOMAIN y |-> IF y[s] = class_idx THEN 1 ELSE 0]

\* train_multi_class_anfis: n_classes = len(np.unique(y_train)), then one
\* model per class_idx in range(n_classes) trained on the binary targets
TrainMultiClass(y_train, y_val) ==
    /\ LET n_classes == NUnique(y_train)
       IN mc' = [called |-> TRUE, y_train |-> y_train, y_val |-> y_val,
                 models |-> [k \in 1..n_classes |->
                                [class_idx |-> k - 1,
                                 y_train_binary |-> Binary(y_train, k - 1),
                                 y_val_binary |-> Binary(y_val, k - 1)]]]
    /\ call' = [op |-> "train_multi_class_anfis", file |-> ""]
    /\ raised' = ""
    /\ UNCHANGED <<trainVars, persistVars, auxVars, serveVars, out, al>>

\* predict_multi_class, one sample: probabilities / row_sums with no guard
PredictMultiClass(raw) ==
    /\ mc.called
    /\ Len(raw) = Len(mc.models)
    /\ LET row_sum == SumSeq(raw)
       IN out' = [kind |-> "predict_multi_class",
                  names |-> [i \in 1..Len(raw) |-> SavedLabels[i]],
                  raw |-> raw,
                  probabilities |-> [i \in 1..Len(raw) |-> Quot(raw[i], row_sum)],
                  src |-> [i \in 1..Len(raw) |-> mc.models[i].class_idx]]
    /\ call' = [op |-> "predict_multi_class", file |-> ""]
    /\ raised' = ""
    /\ UNCHANGED <<trainVars, persistVars, auxVars, serveVars, mc, al>>

\* the state of ./models and ./training_output that load_trained_models finds
Deploy(present, pre) ==
    /\ models_dir' = present
    /\ preprocess_file' = pre
    /\ call' = [op |-> "deploy", file |-> ""]
    /\ raised' = ""
    /\ UNCHANGED <<trainVars, persistVars, auxVars, trained_models, preprocessing_data,
                   label_mapping, mc, out, al>>

\* the models appended for i in range(n) whose file exists, in order
RECURSIVE LoadedModels(_, _)
LoadedModels(n, present) ==
    IF n = 0 THEN <<>>
    ELSE IF (n - 1) \in present
         THEN Append(LoadedModels(n - 1, present), [cls |-> n - 1])
         ELSE LoadedModels(n - 1, present)

\* main.py load_trained_models (docker/model_service.py has the same loop)
LoadTrainedModels ==
    /\ LET mapping == IF preprocess_file THEN SavedLabels ELSE FallbackLabels
       IN /\ label_mapping' = mapping
          /\ preprocessing_data' = IF preprocess_file
                                   THEN [loaded |-> TRUE, label_mapping |-> SavedLabels]
                                   ELSE preprocessing_data
          /\ trained_models' = LoadedModels(Len(mapping), models_dir)
    /\ call' = [op |-> "load_trained_models", file |-> ""]
    /\ raised' = ""
    /\ UNCHANGED <<trainVars, persistVars, auxVars, models_dir, preprocess_file, mc, out, al>>

\* label_mapping.get(i, f'class_{i}')
ClassName(i) == IF i + 1 <= Len(label_mapping) THEN label_mapping[i + 1]
                ELSE DefaultNames[i + 1]

\* main.py predict_with_anfis: the demo response without models or
\* preprocessing data, else the scores by class name, normalised, with the
\* uniform fallback when the total is 0; ok = FALSE is a failing feature extraction
PredictWithAnfis(raw, ok) ==
    /\ Len(raw) = Len(trained_models)
    /\ out' = IF trained_models = <<>> \/ preprocessing_data = NoPreprocessing
              THEN [NoOut EXCEPT !.kind = "demo"]
              ELSE IF ~ok
              THEN [NoOut EXCEPT !.kind = "error"]
              ELSE LET total_prob == SumSeq(raw)
                       n == Len(raw)
                   IN [kind |-> "predict_with_anfis",
                       names |-> [i \in 1..n |-> ClassName(i - 1)],
                       raw |-> raw,
                       probabilities |->
                           [i \in 1..n |-> IF total_prob > 0
                                           THEN Quot(raw[i], total_prob)
                                           ELSE Quot(1, n)],
                       src |-> [i \in 1..n |-> trained_models[i].cls]]
    /\ call' = [op |-> "predict_with_anfis", file |-> ""]
    /\ raised' = ""
    /\ UNCHANGED <<trainVars, persistVars, auxVars, serveVars, mc, al>>

\* ------------------------------------------------------ active learning
\* the iterations a loop is configured with
MaxIterations == 2
\* the samples_per_iteration a loop is configured with
MaxSamplesPerIteration == 2

\* confidence_threshold in tenths: the default 0.7, and 0.5
TScale == 10
ThresholdChoices == {5, 7}

\* the labels of the initial pool
InitialLabels == <<"healthy", "anthracnose">>

\* the feature dicts of the initial pool, one per label
InitialFeatures ==
    [s \in 1..Len(InitialLabels) |-> [image |-> "initial", index |-> s - 1, iteration |-> 0]]

\* the validation targets tried
ValTargets == [1..NVal -> {0, 1}]
\* the predict_proba output of a trained model on X_val
ValPredictions == [1..NVal -> 0..PScale]

IdleLoop ==
    [pc |-> "idle", confidence_threshold |-> 0, max_iterations |-> 0,
     samples_per_iteration |-> 0, y_val |-> <<>>,
     current_features |-> <<>>, current_labels |-> <<>>, new_samples |-> <<>>,
     iteration |-> 0, models |-> <<>>, model |-> None, best_model |-> None,
     best_performance |-> 0, best_history |-> <<>>,
     model_performance |-> <<>>, training_history |-> <<>>,
     uncertain_indices |-> {}, uncertain_defect_types |-> {}, returned |-> None]
\* best_history is a history variable: the tracked best F1 after each iteration

\* sklearn f1_score(y, (p > 0.5).astype(int), average='binary'), in
\* thousandths; 0.0 when there is no true positive
F1Score(p, y) ==
    LET pred == [s \in DOMAIN y |-> IF p[s] > PHalf THEN 1 ELSE 0]
        tp == Cardinality({s \in DOMAIN y : pred[s] = 1 /\ y[s] = 1})
        fp == Cardinality({s \in DOMAIN y : pred[s] = 1 /\ y[s] = 0})
        fn == Cardinality({s \in DOMAIN y : pred[s] = 0 /\ y[s] = 1})
    IN IF tp = 0 THEN 0 ELSE (2000 * tp) \div (2 * tp + fp + fn)

\* identify_uncertain_samples with <= in place of <
identify_uncertain_samples_AtOrBelow(predictions, threshold) ==
    {s \in DOMAIN predictions :
        Abs(predictions[s] - PHalf) * 2 * TScale <= threshold * PScale}

\* identify_uncertain_samples: confidence = np.abs(predictions - 0.5) * 2,
\* np.where(confidence < self.confidence_threshold)
identify_uncertain_samples(predictions, threshold) ==
    {s \in DOMAIN predictions :
        Abs(predictions[s] - PHalf) * 2 * TScale < threshold * PScale}

\* analyze_uncertain_samples: the target defect types, duplicates removed
analyze_uncertain_samples(predictions, y_val, uncertain_indices) ==
    LET false_positive == \E s \in uncertain_indices :
                              predictions[s] > PHalf /\ y_val[s] = 0
        false_negative == \E s \in uncertain_indices :
                              predictions[s] <= PHalf /\ y_val[s] = 1
        low_confidence == \E s \in uncertain_indices :
                              Abs(predictions[s] - PHalf) * 10 < 2 * PScale
        needed == (IF false_positive THEN {"healthy"} ELSE {})
                  \cup (IF false_negative THEN {"anthracnose", "blight", "rot"} ELSE {})
                  \cup (IF low_confidence THEN {"sunscald", "mildew", "insect"} ELSE {})
    IN IF needed = {} THEN {"healthy", "anthracnose", "blight"} ELSE needed

\* DEFECT_TYPES[defect_type].pattern
Pattern(defect_type) ==
    CASE defect_type = "anthracnose" -> "circular"
      [] defect_type = "blight" -> "irregular"
      [] defect_type = "sunscald" -> "patchy"
      [] defect_type = "mildew" -> "powdery"
      [] defect_type = "rot" -> "spreading"
      [] defect_type = "insect" -> "irregular"
      [] OTHER -> "none"

\* generate_single_image raises UnboundLocalError: apply_defect reads the
\* local radius before any assignment in the irregular and powdery branches
GenerateRaises(defect_type) == Pattern(defect_type) \in {"irregular", "powdery"}

\* the orders list(set(defect_types_needed)) can have
Orderings(S) ==
    {o \in [1..Cardinality(S) -> S] : \A i, j \in DOMAIN o : o[i] = o[j] => i = j}

\* samples_needed = max(1, int(n_samples * count / len(uncertain_defect_types)))
\* with count = 1 for each type of the duplicate-free list
SamplesNeeded(n_samples, n_types) == Max(1, n_samples \div n_types)

\* the defect_type of the samples generate_targeted_synthetic_samples returns
RECURSIVE NewSampleLabels(_, _)
NewSampleLabels(order, needed) ==
    IF order = <<>> THEN <<>>
    ELSE [i \in 1..needed |-> Head(order)] \o NewSampleLabels(Tail(order), needed)

\* the samples generate_targeted_synthetic_samples returns in an iteration:
\* defect_type, and the features extracted from the image of that sample
NewSamples(order, needed, iteration) ==
    LET labels == NewSampleLabels(order, needed)
    IN [s \in 1..Len(labels) |->
            [defect_type |-> labels[s],
             features |-> [image |-> labels[s], index |-> (s - 1) % needed,
                           iteration |-> iteration]]]

\* update_training_data that skips a sample whose label the pool already has
update_training_data_Dedup(current_features, current_labels, new_samples) ==
    LET fresh == SelectSeq(new_samples,
                     LAMBDA sample : \A s \in DOMAIN current_labels :
                                        current_labels[s] # sample.defect_type)
    IN [features |-> current_features \o [s \in DOMAIN fresh |-> fresh[s].features],
        labels |-> current_labels \o [s \in DOMAIN fresh |-> fresh[s].defect_type]]

\* update_training_data: copies of both lists with sample['features'] and
\* sample['defect_type'] of every new sample appended
update_training_data(current_features, current_labels, new_samples) ==
    [features |-> current_features \o
                      [s \in DOMAIN new_samples |-> new_samples[s].features],
     labels |-> current_labels \o
                    [s \in DOMAIN new_samples |-> new_samples[s].defect_type]]

\* active_learning_loop: entry
LoopBegin(threshold, max_iterations, samples_per_iteration, y_val) ==
    /\ al.pc = "idle"
    /\ al' = [IdleLoop EXCEPT !.pc = "train",
                              !.confidence_threshold = threshold,
                              !.max_iterations = max_iterations,
                              !.samples_per_iteration = samples_per_iteration,
                              !.y_val = y_val,
                              !.current_features = InitialFeatures,
                              !.current_labels = InitialLabels]
    /\ call' = [op |-> "active_learning_loop", file |-> ""]
    /\ raised' = ""
    /\ UNCHANGED <<trainVars, persistVars, auxVars, ensVars>>

\* one iteration, first part: prepare_dataset, train_model, evaluate,
\* model_performance.append, and the best-model update
LoopTrain(predictions) ==
    /\ al.pc = "train"
    /\ LET model == Len(al.models) + 1
           f1_score == F1Score(predictions, al.y_val)
           better == f1_score > al.best_performance
       IN al' = [al EXCEPT
                    !.models = Append(@, [proba |-> predictions,
                                          iteration |-> al.iteration,
                                          n_samples |-> Len(al.current_labels)]),
                    !.model = model,
                    !.model_performance = Append(@, f1_score),
                    !.best_performance = IF better THEN f1_score ELSE @,
                    !.best_model = IF better THEN model ELSE @,
                    !.best_history = Append(@, IF better THEN f1_score ELSE al.best_performance),
                    !.pc = "select"]
    /\ UNCHANGED <<trainVars, persistVars, auxVars, ensVars, call, raised>>

\* second part: identify_uncertain_samples, the break when there is none,
\* else analyze_uncertain_samples
LoopSelect ==
    /\ al.pc = "select"
    /\ LET predictions == al.models[al.model].proba
           uncertain_indices == identify_uncertain_samples(predictions,
                                                           al.confidence_threshold)
       IN al' = [al EXCEPT
                    !.uncertain_indices = uncertain_indices,
                    !.uncertain_defect_types =
                        IF uncertain_indices = {} THEN {}
                        ELSE analyze_uncertain_samples(predictions, al.y_val,
                                                       uncertain_indices),
                    !.pc = IF uncertain_indices = {} THEN "return" ELSE "generate"]
    /\ UNCHANGED <<trainVars, persistVars, auxVars, ensVars, call, raised>>

\* third part: generate_targeted_synthetic_samples (no exception handler
\* here or in the loop), update_training_data, training_history.append, and
\* the next round of the for loop
LoopGenerate ==
    /\ al.pc = "generate"
    /\ IF \E t \in al.uncertain_defect_types : GenerateRaises(t)
       THEN /\ al' = [al EXCEPT !.pc = "raised"]
            /\ raised' = "UnboundLocalError"
       ELSE /\ \E order \in Orderings(al.uncertain_defect_types) :
                 LET needed == SamplesNeeded(al.samples_per_iteration, Len(order))
                     new_samples == NewSamples(order, needed, al.iteration)
                     updated == update_training_data(al.current_features,
                                                     al.current_labels, new_samples)
                 IN al' = [al EXCEPT
                              !.new_samples = new_samples,
                              !.current_features = updated.features,
                              !.current_labels = updated.labels,
                              !.training_history =
                                  Append(@, [iteration |-> al.iteration,
                                             uncertain_samples |->
                                                 Cardinality(al.uncertain_indices),
                                             new_samples |-> Len(new_samples)]),
                              !.iteration = @ + 1,
                              !.pc = IF al.iteration + 1 < al.max_iterations
                                     THEN "train" ELSE "return"]
            /\ raised' = ""
    /\ UNCHANGED <<trainVars, persistVars, auxVars, ensVars, call>>

\* return best_model, {...}
LoopReturn ==
    /\ al.pc = "return"
    /\ al' = [al EXCEPT !.pc = "returned", !.returned = al.best_model]
    /\ UNCHANGED <<trainVars, persistVars, auxVars, ensVars, call, raised>>

\* ------------------------------------- BellPepperSyntheticGenerator
\* list(DEFECT_TYPES.keys()) + ['healthy']
DefectTypes ==
    {"anthracnose", "blight", "sunscald", "mildew", "rot", "insect", "healthy"}

\* BellPepperSyntheticGenerator(): no call made, no file written
NewGenerator ==
    [op |-> "none", defect_type |-> "", uncertain_defect_types |-> <<>>, n_samples |-> 0,
     raised |-> "", label |-> "", samples |-> <<>>, requested |-> 0, output_dir |-> {}]

\* the locals of apply_defect assigned before the pattern branches
AssignedBeforeBranch ==
    {"img", "mask", "defect_type", "defect", "pepper_contours", "pepper_contour",
     "pepper_area", "defect_size", "defect_area", "defect_mask"}

Stmt(reads, writes) == [reads |-> reads, writes |-> writes]

\* apply_defect: the statements of a pattern branch in execution order, each
\* with the locals it reads and then assigns; a loop is its first round (every
\* loop runs at least once: randint(5, 8), randint(3, 6), randint(20, 40), 3)
Branch(pattern) ==
    CASE pattern = "circular" ->
            <<Stmt({"pepper_contour"}, {"center"}),
              Stmt({"defect_area"}, {"radius"}),
              Stmt({"defect_mask", "center", "radius"}, {})>>
      [] pattern = "irregular" ->
            <<Stmt({"pepper_contour"}, {"center"}),
              Stmt({}, {"points"}),
              Stmt({}, {"angle"}),
              Stmt({"radius"}, {"radius"}),
              Stmt({"center", "radius", "angle"}, {"x"}),
              Stmt({"center", "radius", "angle"}, {"y"}),
              Stmt({"points", "x", "y"}, {}),
              Stmt({"points"}, {"points"}),
              Stmt({"defect_mask", "points"}, {})>>
      [] pattern = "patchy" ->
            <<Stmt({"pepper_contour"}, {"center"}),
              Stmt({"defect_area"}, {"radius"}),
              Stmt({"center", "radius"}, {"x"}),
              Stmt({"center", "radius"}, {"y"}),
              Stmt({"defect_mask", "x", "y", "radius"}, {})>>
      [] pattern = "powdery" ->
            <<Stmt({"pepper_contour"}, {"center"}),
              Stmt({"center", "radius"}, {"x"}),
              Stmt({"center", "radius"}, {"y"}),
              Stmt({"defect_mask", "x", "y"}, {})>>
      [] pattern = "spreading" ->
            <<Stmt({"pepper_contour"}, {"center"}),
              Stmt({"defect_area"}, {"radius"}),
              Stmt({"defect_mask", "center", "radius"}, {})>>
      [] OTHER -> <<>>

\* the locals the first failing statement reads unassigned ({} when every
\* statement finds its locals assigned)
RECURSIVE UnboundReads(_, _)
UnboundReads(stmts, assigned) ==
    IF stmts = <<>> THEN {}
    ELSE IF Head(stmts).reads \subseteq assigned
         THEN UnboundReads(Tail(stmts), assigned \cup Head(stmts).writes)
         ELSE Head(stmts).reads \ assigned

\* apply_defect(img, mask, defect_type): the exception it raises, "" for none;
\* the mask of generate_base_pepper always holds the ellipse, so
\* pepper_contours is never empty
apply_defect(defect_type) ==
    IF defect_type = "healthy" THEN ""
    ELSE IF UnboundReads(Branch(Pattern(defect_type)), AssignedBeforeBranch) # {}
         THEN "UnboundLocalError"
         ELSE ""

\* generate_single_image(defect_type): (img, defect_type), or the exception
generate_single_image(defect_type) ==
    [raised |-> apply_defect(defect_type),
     label |-> IF apply_defect(defect_type) = "" THEN defect_type ELSE ""]

\* a call generator.generate_single_image(defect_type)
GenerateSingleImage(defect_type) ==
    /\ gen' = [NewGenerator EXCEPT !.op = "generate_single_image",
                                   !.defect_type = defect_type,
                                   !.raised = generate_single_image(defect_type).raised,
                                   !.label = generate_single_image(defect_type).label,
                                   !.output_dir = gen.output_dir]
    /\ call' = [op |-> "generate_single_image", file |-> ""]
    /\ raised' = generate_single_image(defect_type).raised
    /\ UNCHANGED <<trainVars, persistVars, ensVars, al, ret, seedVars, pl>>

\* the longest list of target types generate_targeted_synthetic_samples is given
MaxTargets == 2

\* the lists of target types: up to MaxTargets defect types, duplicates allowed
TargetLists == UNION {[1..k -> DefectTypes] : k \in 0..MaxTargets}

\* list(defect_counts): the types of the list in the order of their first
\* occurrence (a dict keeps its insertion order)
RECURSIVE DefectCountKeys(_)
DefectCountKeys(types) ==
    IF types = <<>> THEN <<>>
    ELSE LET init == SubSeq(types, 1, Len(types) - 1)
             last == types[Len(types)]
         IN IF \E i \in DOMAIN init : init[i] = last
            THEN DefectCountKeys(init)
            ELSE Append(DefectCountKeys(init), last)

\* defect_counts[defect_type]: the occurrences of the type in the list
DefectCount(types, defect_type) ==
    Cardinality({i \in DOMAIN types : types[i] = defect_type})

\* samples_needed = max(1, int(n_samples * count / len(uncertain_defect_types)))
samples_needed(n_samples, count, len) == Max(1, (n_samples * count) \div len)

\* generate_targeted_synthetic_samples: the loop over defect_counts.items()
\* for the keys left; acc is the run so far: the defect_type of the samples
\* appended, the files written, the calls of generate_single_image made, and
\* the exception that ended the run
RECURSIVE TargetedRun(_, _, _, _)
TargetedRun(keys, types, n_samples, acc) ==
    IF keys = <<>> THEN acc
    ELSE LET defect_type == Head(keys)
             needed == samples_needed(n_samples, DefectCount(types, defect_type),
                                      Len(types))
             made == generate_single_image(defect_type)
         IN IF made.raised # ""
            THEN [acc EXCEPT !.raised = made.raised, !.requested = @ + 1]
            ELSE TargetedRun(Tail(keys), types, n_samples,
                     [acc EXCEPT
                         !.samples = @ \o [i \in 1..needed |-> made.label],
                         !.files = @ \cup {<<defect_type, i>> : i \in 0..(needed - 1)},
                         !.requested = @ + needed])

\* generate_targeted_synthetic_samples(uncertain_defect_types, n_samples)
generate_targeted_synthetic_samples(uncertain_defect_types, n_samples) ==
    TargetedRun(DefectCountKeys(uncertain_defect_types), uncertain_defect_types, n_samples,
                [raised |-> "", samples |-> <<>>, files |-> {}, requested |-> 0])

\* a call generate_targeted_synthetic_samples(uncertain_defect_types, n_samples);
\* the files active_learning_{defect_type}_{i}.jpg are written to output_dir
GenerateTargeted(uncertain_defect_types, n_samples) ==
    /\ LET run == generate_targeted_synthetic_samples(uncertain_defect_types, n_samples)
       IN /\ gen' = [NewGenerator EXCEPT
                        !.op = "generate_targeted_synthetic_samples",
                        !.uncertain_defect_types = uncertain_defect_types,
                        !.n_samples = n_samples,
                        !.raised = run.raised,
                        !.samples = IF run.raised = "" THEN run.samples ELSE <<>>,
                        !.requested = run.requested,
                        !.output_dir = gen.output_dir \cup run.files]
          /\ raised' = run.raised
    /\ call' = [op |-> "generate_targeted_synthetic_samples", file |-> ""]
    /\ UNCHANGED <<trainVars, persistVars, ensVars, al, ret, seedVars, pl>>

\* ------------------------------------- BellPepperTrainingPipeline
\* run_complete_pipeline before it is called; trainer_model is the model of
\* the pipeline's own ANFISTrainer, al_trainer_model the model of the
\* ANFISTrainer the ActiveLearningSystem constructs for itself; measured is
\* a history variable: the best model's parameters and F1 when it was measured
IdlePipeline ==
    [pc |-> "idle", confidence_threshold |-> 0, max_iterations |-> 0, iteration |-> 0,
     trainer_model |-> None, al_trainer_model |-> None, initial_model |-> None,
     best_model |-> None, best_performance |-> 0,
     measured |-> [params |-> <<>>, f1_score |-> 0],
     improved_model |-> None, reported |-> None,
     final_model |-> None, final_params |-> <<>>]

\* a train_model that trains the trainer's model again once it has one
train_model_Reuse(h, os, self_model, n_inputs, n_rules, seed, g) ==
    IF self_model = None
    THEN LET m == NewModel(Len(h), n_inputs, n_rules, TrainerNMF)
         IN [heap |-> UpdatedHeap(h \o NewArrays(n_inputs, n_rules, TrainerNMF, seed), m, g),
             objs |-> Append(os, m), model |-> Len(os) + 1]
    ELSE [heap |-> UpdatedHeap(h, os[self_model], g), objs |-> os,
          model |-> self_model]

\* ANFISTrainer.train_model as one step: self.model = ANFISModel(...), a new
\* object with new arrays, then self.model.train(...), whose in-place updates
\* are the step g; the heap and the objects after it and the model returned
train_model(h, os, self_model, n_inputs, n_rules, seed, g) ==
    LET m == NewModel(Len(h), n_inputs, n_rules, TrainerNMF)
    IN [heap |-> UpdatedHeap(h \o NewArrays(n_inputs, n_rules, TrainerNMF, seed), m, g),
        objs |-> Append(os, m), model |-> Len(os) + 1]

\* run_complete_pipeline: entry, up to and including step 6,
\* initial_model = self.train_initial_model(...) on the pipeline's trainer
PipelineTrainInitial(threshold, max_iterations, seed, g) ==
    /\ pl.pc = "idle"
    /\ tr.pc = "idle"
    /\ LET r == train_model(heap, objs, pl.trainer_model, 2, 2, seed, g)
       IN /\ heap' = r.heap
          /\ objs' = r.objs
          /\ loaded_from' = [k \in 1..Len(r.objs) |->
                                IF k <= Len(objs) THEN loaded_from[k] ELSE NotLoaded]
          /\ pl' = [IdlePipeline EXCEPT !.pc = "loop",
                                        !.confidence_threshold = threshold,
                                        !.max_iterations = max_iterations,
                                        !.trainer_model = r.model,
                                        !.initial_model = r.model]
    /\ call' = [op |-> "run_complete_pipeline", file |-> ""]
    /\ raised' = ""
    /\ UNCHANGED <<tr, epoch_params, fs, trainer_model, ensVars, al, ret, seedVars, gen>>

\* step 7, one iteration of active_learning_loop: train_model on the loop's
\* trainer, evaluate, the best-model update, identify_uncertain_samples and
\* the break, analyze_uncertain_samples and the generation of the samples
PipelineIteration(seed, g) ==
    /\ pl.pc = "loop"
    /\ LET r == train_model(heap, objs, pl.al_trainer_model, 2, 2, seed, g)
           predictions == predict_proba(r.heap, r.objs[r.model], ValX(2))
           f1_score == F1Score(predictions, ValY)
           better == f1_score > pl.best_performance
           uncertain_indices == identify_uncertain_samples(predictions,
                                                           pl.confidence_threshold)
           raises == /\ uncertain_indices # {}
                     /\ \E t \in analyze_uncertain_samples(predictions, ValY,
                                                           uncertain_indices) :
                           GenerateRaises(t)
       IN /\ heap' = r.heap
          /\ objs' = r.objs
          /\ loaded_from' = [k \in 1..Len(r.objs) |->
                                IF k <= Len(objs) THEN loaded_from[k] ELSE NotLoaded]
          /\ pl' = [pl EXCEPT
                       !.al_trainer_model = r.model,
                       !.best_performance = IF better THEN f1_score ELSE @,
                       !.best_model = IF better THEN r.model ELSE @,
                       !.measured = IF better
                                    THEN [params |-> ParamsOf(r.heap, r.objs[r.model]),
                                          f1_score |-> f1_score]
                                    ELSE @,
                       !.iteration = @ + 1,
                       !.pc = IF uncertain_indices = {} THEN "evaluate"
                              ELSE IF raises THEN "raised"
                              ELSE IF pl.iteration + 1 < pl.max_iterations THEN "loop"
                              ELSE "evaluate"]
          /\ raised' = IF raises THEN "UnboundLocalError" ELSE ""
    /\ UNCHANGED <<tr, epoch_params, fs, trainer_model, call, ensVars, al, ret, seedVars, gen>>

\* step 8: improved_model is the loop's best_model;
\* evaluate_model_performance(improved_model, X_test, y_test) calls
\* model.predict, which None does not have
PipelineEvaluate ==
    /\ pl.pc = "evaluate"
    /\ pl' = [pl EXCEPT !.improved_model = pl.best_model,
                        !.reported = pl.best_model,
                        !.pc = IF pl.best_model = None THEN "raised" ELSE "save"]
    /\ raised' = IF pl.best_model = None THEN "AttributeError" ELSE ""
    /\ UNCHANGED <<trainVars, persistVars, call, ensVars, al, ret, seedVars, gen>>

\* step 9: self.trainer.save_trained_model("final_anfis_model.pkl") saves
\* the model of the pipeline's trainer
PipelineSave ==
    /\ pl.pc = "save"
    /\ pl' = [pl EXCEPT !.final_model = pl.trainer_model,
                        !.final_params = ParamsOf(heap, objs[pl.trainer_model]),
                        !.pc = "done"]
    /\ UNCHANGED <<trainVars, persistVars, call, raised, ensVars, al, ret, seedVars, gen>>

vars == <<heap, objs, tr, epoch_params, fs, trainer_model, call, raised, loaded_from,
          ensVars, al, auxVars>>

Init ==
    /\ heap = <<>>
    /\ objs = <<>>
    /\ tr = IdleFrame
    /\ epoch_params = <<>>
    /\ fs = [f \in Files |-> NoFile]
    /\ trainer_model = None
    /\ call = [op |-> "", file |-> ""]
    /\ raised = ""
    /\ loaded_from = <<>>
    /\ models_dir = {}
    /\ preprocess_file = FALSE
    /\ trained_models = <<>>
    /\ preprocessing_data = NoPreprocessing
    /\ label_mapping = <<>>
    /\ mc = NoCall
    /\ out = NoOut
    /\ al = IdleLoop
    /\ ret = NoRet
    /\ rng = Unseeded
    /\ cur = 1
    /\ parked = IdleFrame
    /\ reference = NoReference
    /\ gen = NewGenerator
    /\ pl = IdlePipeline

\* the constructor arguments tried: <<n_inputs, n_rules, n_membership_functions>>
CtorChoices == {<<1, 1, 2>>, <<2, 2, 2>>}
SeedChoices == {1, 2}

\* a train run on one newly constructed model
NextTrain ==
    \/ \E c \in CtorChoices, seed \in SeedChoices :
          Len(objs) = 0 /\ Construct(c[1], c[2], c[3], seed)
    \/ \E epochs \in 0..MaxEpochs, patience \in 1..2, batch_size \in {1, NTrain} :
          TrainBegin(1, epochs, patience, batch_size)
    \/ \E perm \in Permutations(1..NTrain) : Shuffle(perm)
    \/ \E g \in GradChoices : BackwardPass(g)
    \/ EndEpoch
    \/ Restore

SpecTrain == Init /\ [][NextTrain]_vars

\* models constructed, trained by the trainer, saved and loaded
NextPersist ==
    \/ \E c \in CtorChoices : Construct(c[1], c[2], c[3], 1)
    \/ \E n_rules \in {1, 2} : TrainModel(1, n_rules, 1, 1, 1)
    \/ \E perm \in Permutations(1..NTrain) : Shuffle(perm)
    \/ \E g \in GradChoices : BackwardPass(g)
    \/ EndEpoch
    \/ Restore
    \/ \E id \in 1..MaxObjects, f \in Files : SaveModel(id, f)
    \/ \E id \in 1..MaxObjects, f \in Files : LoadModel(id, f)
    \/ \E f \in Files : SaveTrainedModel(f)
    \/ \E f \in Files : LoadTrainedModel(f)

SpecPersist == Init /\ [][NextPersist]_vars

\* train_multi_class_anfis and predict_multi_class of the dataset trainer
NextMultiClass ==
    \/ \E y_train \in [1..NLabels -> 0..(NClasses - 1)],
          y_val \in {[s \in 1..NLabels |-> 0], [s \in 1..NLabels |-> (s - 1) % NClasses]} :
          TrainMultiClass(y_train, y_val)
    \/ \E raw \in RawScores(Len(mc.models)) : PredictMultiClass(raw)

SpecMultiClass == Init /\ [][NextMultiClass]_vars

\* the API server: the artifacts found on disk, the load at startup, inference
NextServe ==
    \/ \E present \in SUBSET (0..(NClasses - 1)), pre \in BOOLEAN : Deploy(present, pre)
    \/ LoadTrainedModels
    \/ \E raw \in RawScores(Len(trained_models)), ok \in BOOLEAN : PredictWithAnfis(raw, ok)

SpecServe == Init /\ [][NextServe]_vars

\* one run of the active-learning loop
NextLoop ==
    \/ \E threshold \in ThresholdChoices, max_iterations \in 1..MaxIterations,
          samples_per_iteration \in 1..MaxSamplesPerIteration, y_val \in ValTargets :
          LoopBegin(threshold, max_iterations, samples_per_iteration, y_val)
    \/ \E predictions \in ValPredictions : LoopTrain(predictions)
    \/ LoopSelect
    \/ LoopGenerate
    \/ LoopReturn

\* the loop is sequential code: a step that can be taken is taken
SpecLoop == Init /\ [][NextLoop]_vars /\ WF_vars(NextLoop)

\* a model constructed, trained for one epoch and queried
NextQuery ==
    \/ \E c \in CtorChoices, seed \in SeedChoices :
          Len(objs) = 0 /\ Construct(c[1], c[2], c[3], seed)
    \/ TrainBegin(1, 1, 1, NTrain)
    \/ \E perm \in Permutations(1..NTrain) : Shuffle(perm)
    \/ \E g \in GradChoices : BackwardPass(g)
    \/ EndEpoch
    \/ Restore
    \/ \E id \in 1..Len(objs) : \E X \in Batches(objs[id].n_inputs) : PredictProba(id, X)
    \/ \E id \in 1..Len(objs) : \E X \in Batches(objs[id].n_inputs) : Predict(id, X)

SpecQuery == Init /\ [][NextQuery]_vars

\* a seeded run of construction and training, then a second run with the
\* same seed, arguments and data
NextRepeat ==
    \/ \E s \in 1..RngPeriod, epochs \in 1..2, patience \in 1..2, batch_size \in {1, NTrain} :
          SeedRun(s, epochs, patience, batch_size)
    \/ SeededTrainClass
    \/ SeededShuffle
    \/ BackwardStep
    \/ EndEpoch
    \/ Restore
    \/ SecondRun

SpecRepeat == Init /\ [][NextRepeat]_vars

\* two class models trained by two threads: one after the other in the
\* first run, interleaved in the second run
NextConcurrent ==
    \/ \E s \in 1..RngPeriod, batch_size \in {1, NTrain} : SeedRun(s, 1, 1, batch_size)
    \/ SeededTrainClass
    \/ SeededShuffle
    \/ BackwardStep
    \/ EndEpoch
    \/ Restore
    \/ SecondRun
    \/ YieldThread

SpecConcurrent == Init /\ [][NextConcurrent]_vars

\* models whose widths are assigned from outside, the first one saved, the
\* last one loaded once, all queried for their membership degrees
NextWidths ==
    \/ Construct(1, 1, 2, 1)
    \/ \E id \in 1..Len(objs) : \E i \in 1..objs[id].n_inputs :
          \E j \in 1..objs[id].n_membership_functions, w \in WidthChoices :
             AssignWidth(id, i, j, w)
    \/ \E f \in Files : SaveModel(1, f)
    \/ \E f \in Files : Len(objs) = MaxObjects /\ ~loaded_from[MaxObjects].loaded
                           /\ LoadModel(MaxObjects, f)
    \/ \E id \in 1..Len(objs) : \E x \in QueryX(objs[id].n_inputs) : MembershipDegrees(id, x)

SpecWidths == Init /\ [][NextWidths]_vars

\* calls of the synthetic generator
NextGenerator ==
    \/ \E defect_type \in DefectTypes : GenerateSingleImage(defect_type)
    \/ \E uncertain_defect_types \in TargetLists, n_samples \in 1..MaxSamplesPerIteration :
          GenerateTargeted(uncertain_defect_types, n_samples)

SpecGenerator == Init /\ [][NextGenerator]_vars

\* the constructor arguments of the rule queries: <<n_inputs, n_rules, M>>,
\* n_rules below, at and above M * M
RuleShapes == {<<2, 3, 2>>, <<3, 4, 2>>, <<3, 5, 2>>}

\* one model constructed and its rule strengths queried
NextRules ==
    \/ \E c \in RuleShapes : Len(objs) = 0 /\ Construct(c[1], c[2], c[3], 1)
    \/ \E id \in 1..Len(objs) : \E membership_degrees \in DegreeDicts(objs[id]) :
          GenerateRules(id, membership_degrees)

SpecRules == Init /\ [][NextRules]_vars

\* a model trained by one train call and then by further train calls
NextRetrain ==
    \/ Len(objs) = 0 /\ Construct(1, 1, 2, 1)
    \/ \E epochs \in 1..(MaxEpochs - 1), patience \in 1..2 :
          TrainBegin(1, epochs, patience, NTrain)
    \/ \E epochs \in 1..(MaxEpochs - 1), patience \in 1..2 :
          Retrain(1, epochs, patience, NTrain)
    \/ \E perm \in Permutations(1..NTrain) : Shuffle(perm)
    \/ \E g \in GradChoices : BackwardPass(g)
    \/ EndEpoch
    \/ Restore

SpecRetrain == Init /\ [][NextRetrain]_vars

\* one model constructed and the consequent updates of a backward pass
\* computed for batches of one and more samples
NextGradient ==
    \/ \E c \in CtorChoices, seed \in SeedChoices :
          Len(objs) = 0 /\ Construct(c[1], c[2], c[3], seed)
    \/ \E id \in 1..Len(objs) : \E x \in Batches(objs[id].n_inputs) :
          \E y_true \in [1..Len(x) -> {0, 1}] : ConsequentStep(id, x, y_true)

SpecGradient == Init /\ [][NextGradient]_vars

\* one run of the training pipeline
NextPipeline ==
    \/ \E threshold \in ThresholdChoices, max_iterations \in 1..MaxIterations,
          seed \in SeedChoices, g \in GradChoices :
          PipelineTrainInitial(threshold, max_iterations, seed, g)
    \/ \E seed \in SeedChoices, g \in GradChoices : PipelineIteration(seed, g)
    \/ PipelineEvaluate
    \/ PipelineSave

SpecPipeline == Init /\ [][NextPipeline]_vars

\* load_model of files save_model wrote and of files lacking a key
NextLoad ==
    \/ \E c \in CtorChoices, seed \in SeedChoices : Construct(c[1], c[2], c[3], seed)
    \/ \E f \in Files : SaveModel(1, f)
    \/ \E f \in Files, key \in {ModelDataKeys[k] : k \in DOMAIN ModelDataKeys} :
          StoreRecordLacking(1, f, key)
    \/ \E f \in Files : LoadModel(MaxObjects, f)

SpecLoad == Init /\ [][NextLoad]_vars

\* ------------------------------------------------------------ claims
\* the validation loss of model m as it stands
ValLossNow(h, m) == BCE(predict_proba(h, m, ValX(m.n_inputs)), ValY)

\* the epochs (1-based) of the finished train call with the lowest validation loss
BestEpochs(m) ==
    LET vl == m.training_history.val_loss
    IN {e \in 1..Len(vl) : \A f \in 1..Len(vl) : vl[e] <= vl[f]}

\* C1: when train returns, the centers, widths and consequents are the values
\* they had at the end of the epoch with the lowest validation loss, and the
\* restored model's validation loss is not above that of any later epoch.
C1_RestoredIsBestEpoch ==
    (tr.pc = "returned" /\ epoch_params # <<>>) =>
        LET m == objs[tr.self]
            vl == m.training_history.val_loss
        IN \E e \in BestEpochs(m) :
              /\ ParamsOf(heap, m) = epoch_params[e]
              /\ \A f \in (e + 1)..Len(vl) : ValLossNow(heap, m) <= vl[f]

\* C3: a model that loaded a file has the n_inputs, n_rules,
\* n_membership_functions, membership parameters, rule consequents and
\* training history the saving model had when it wrote the file, and gives the
\* saver's predict_proba output on every probe sample, whatever sizes the
\* loading model was constructed with.
C3_SaveLoadRoundTrip ==
    \A id \in 1..Len(objs) :
        loaded_from[id].loaded =>
            LET m == objs[id]
                src == loaded_from[id].src
            IN /\ m.n_inputs = src.n_inputs
               /\ m.n_rules = src.n_rules
               /\ m.n_membership_functions = src.n_membership_functions
               /\ ParamsOf(heap, m) = src.params
               /\ m.training_history = src.training_history
               /\ \A x \in ProbeX(src.n_inputs) : forward_pass(heap, m, x) = src.proba[x]

\* C3 witness: a load into a model constructed with other sizes, of a file
\* written by a trained model
C3_Witness ==
    \E id \in 1..Len(objs) :
        /\ loaded_from[id].loaded
        /\ loaded_from[id].before.n_inputs # loaded_from[id].src.n_inputs
        /\ loaded_from[id].before.n_rules # loaded_from[id].src.n_rules
        /\ loaded_from[id].before.n_membership_functions
              # loaded_from[id].src.n_membership_functions
        /\ loaded_from[id].src.training_history.loss # <<>>
        /\ call.op = "load_model" /\ raised = ""

\* the value of a quotient is 1 / n
IsOneOver(q, n) == q[2] # 0 /\ q[1] * n = q[2]

\* the quotients of a vector sum to 1
SumsToOne(ps) ==
    /\ \A i \in DOMAIN ps : ps[i][2] # 0
    /\ LET all == ProdSeq([i \in DOMAIN ps |-> ps[i][2]])
       IN SumSeq([i \in DOMAIN ps |-> ps[i][1] * (all \div ps[i][2])]) = all

\* C2: the probability vector of an ensemble inference sums to 1, and is the
\* uniform distribution when the raw scores of all class models are zero; no
\* entry is the result of a division by zero.
C2_ProbabilitiesSumToOne ==
    out.kind \in {"predict_multi_class", "predict_with_anfis"} =>
        /\ \A i \in DOMAIN out.probabilities : ~IsNaN(out.probabilities[i])
        /\ SumsToOne(out.probabilities)
        /\ (\A i \in DOMAIN out.raw : out.raw[i] = 0) =>
              \A i \in DOMAIN out.probabilities :
                  IsOneOver(out.probabilities[i], Len(out.raw))

\* a confidence |p - 0.5| * 2 strictly below the threshold (in tenths)
StrictlyBelow(p, threshold) == Abs(p - PHalf) * 2 * TScale < threshold * PScale

\* the validation predictions of the model of iteration i have no uncertain sample
NoUncertainAt(i) ==
    \A s \in DOMAIN al.models[i].proba :
        ~StrictlyBelow(al.models[i].proba[s], al.confidence_threshold)

\* C4: the model active_learning_loop returns after at least one iteration was
\* trained in an iteration whose validation F1 is the maximum over all
\* iterations run, and the tracked best F1 never decreases.
C4_ReturnsBestF1Model ==
    /\ (al.pc = "returned" /\ Len(al.models) >= 1) =>
          /\ al.returned \in 1..Len(al.models)
          /\ \A i \in 1..Len(al.models) :
                al.model_performance[al.returned] >= al.model_performance[i]
    /\ \A i, j \in 1..Len(al.best_history) :
          i <= j => al.best_history[i] <= al.best_history[j]

\* C5: if the first iteration finds no uncertain validation sample, the loop
\* trains exactly once, adds no synthetic sample to the pool and returns the
\* first iteration's model.
C5_FirstIterationCleanReturnsIt ==
    (al.pc = "returned" /\ Len(al.models) >= 1 /\ NoUncertainAt(1)) =>
        /\ Len(al.models) = 1
        /\ al.current_labels = InitialLabels
        /\ al.training_history = <<>>
        /\ al.returned = 1

\* C6: active_learning_loop terminates; it trains at most max_iterations
\* models, and an iteration in which no validation sample has confidence
\* strictly below confidence_threshold is the last one: nothing is generated
\* or trained after it.
C6_LoopTerminates ==
    /\ [](Len(al.models) <= al.max_iterations)
    /\ [](\A i \in 1..Len(al.models) :
             NoUncertainAt(i) =>
                 (i = Len(al.models) /\ al.pc \in {"select", "return", "returned"}))
    /\ ((al.pc # "idle") ~> (al.pc \in {"returned", "raised"}))

\* C6 witness: the loop has returned before max_iterations because the only
\* model had no sample strictly below the threshold, one sample being exactly
\* at the threshold
C6_Witness ==
    /\ al.pc = "returned"
    /\ Len(al.models) = 1
    /\ al.max_iterations > 1
    /\ NoUncertainAt(1)
    /\ \E s \in DOMAIN al.models[1].proba :
          Abs(al.models[1].proba[s] - PHalf) * 2 * TScale = al.confidence_threshold * PScale

\* C7: a failure of synthetic generation for a target class never aborts
\* active_learning_loop: the loop is never left by the generator's exception.
C7_GenerationFailureDoesNotAbort ==
    ~(al.pc = "raised" /\ raised = "UnboundLocalError")

\* C8: train_multi_class_anfis returns one model per class of the label
\* mapping, in class-index order, the model at position c trained on the
\* binary targets (y == c), for any training label vector.
C8_OneModelPerMappedClass ==
    mc.called =>
        /\ Len(mc.models) = Len(SavedLabels)
        /\ \A c \in 0..(Len(SavedLabels) - 1) :
              /\ mc.models[c + 1].y_train_binary =
                    [s \in DOMAIN mc.y_train |-> IF mc.y_train[s] = c THEN 1 ELSE 0]
              /\ mc.models[c + 1].y_val_binary =
                    [s \in DOMAIN mc.y_val |-> IF mc.y_val[s] = c THEN 1 ELSE 0]

\* C9: whenever ensemble inference runs, the model list holds one model per
\* class of the label mapping and the score reported under class i's name is
\* the score of class i's model.
C9_NoClassModelSilentlyMissing ==
    (call.op = "predict_with_anfis" /\ out.kind = "predict_with_anfis") =>
        /\ Len(out.src) = Len(label_mapping)
        /\ \A i \in 1..Len(out.src) :
              out.src[i] = i - 1 /\ out.names[i] = label_mapping[i]

\* C10: load_trained_model on a file that does not exist raises and installs
\* no model: trainer.model and the objects are as before the call.
C10_MissingFileInstallsNothing ==
    [][\A f \in Files :
          (~fs[f].exists /\ call'.op = "load_trained_model" /\ call'.file = f)
              => (/\ raised' = "FileNotFoundError"
                  /\ trainer_model' = trainer_model
                  /\ objs' = objs
                  /\ heap' = heap)]_vars

\* C10 witness: the call has failed on a trainer that holds a model
C10_Witness ==
    /\ call.op = "load_trained_model"
    /\ raised = "FileNotFoundError"
    /\ trainer_model # None

\* C11: predict_proba returns one value in [0,1] per sample, and predict
\* returns one label per sample that is 1 exactly when the sample's
\* predict_proba value is strictly greater than 0.5 (0 at exactly 0.5).
C11_PredictThresholdsProba ==
    /\ ret.op = "predict_proba" =>
          /\ Len(ret.value) = Len(ret.X)
          /\ \A s \in 1..Len(ret.X) : ret.value[s] \in 0..PScale
          /\ ret.value = ret.proba
    /\ ret.op = "predict" =>
          /\ Len(ret.value) = Len(ret.X)
          /\ \A s \in 1..Len(ret.X) :
                /\ ret.proba[s] \in 0..PScale
                /\ ret.value[s] \in {0, 1}
                /\ ret.value[s] = 1 <=> ret.proba[s] > PHalf

\* C11 witness: predict on a trained model returned 0 for a sample whose
\* probability is exactly 0.5 and 1 for a sample above it
C11_Witness ==
    /\ ret.op = "predict"
    /\ objs[ret.id].training_history.loss # <<>>
    /\ \E s, t \in 1..Len(ret.X) :
          /\ ret.proba[s] = PHalf /\ ret.value[s] = 0
          /\ ret.proba[t] > PHalf /\ ret.value[t] = 1

\* C12: when the class models are trained concurrently, under every
\* interleaving each model ends with the parameters and the training history
\* it has when the models are trained one after another.
C12_ConcurrentEqualsSequential ==
    (/\ reference.phase = 2
     /\ reference.results[1].trained /\ reference.results[2].trained
     /\ tr.pc = "returned" /\ parked.pc = "returned") =>
        \A thread \in 1..2 : ResultView(FrameOf(thread)) = reference.results[thread]

C14_NoZeroWidthReachesGaussian ==
    ret.op = "calculate_membership_degrees" =>
        \A i \in DOMAIN ret.value : \A j \in DOMAIN ret.value[i] :
            /\ ret.proba[i][j] # 0
            /\ ret.value[i][j] # NaN

\* C15: a call of generate_single_image completes without raising and returns
\* the requested defect type as its label, for each of the seven types
C15_GenerateSingleImageCompletes ==
    gen.op = "generate_single_image" =>
        /\ gen.raised = ""
        /\ gen.label = gen.defect_type

\* C19: a completed call of generate_targeted_synthetic_samples for a
\* non-empty duplicate-free list of target types and a positive n_samples has
\* requested exactly n_samples images from the generator
C19_RequestedEqualsSamplesPerIteration ==
    (/\ gen.op = "generate_targeted_synthetic_samples"
     /\ gen.raised = ""
     /\ gen.n_samples > 0
     /\ gen.uncertain_defect_types # <<>>
     /\ DefectCountKeys(gen.uncertain_defect_types) = gen.uncertain_defect_types)
        => /\ gen.requested = gen.n_samples
           /\ Len(gen.samples) = gen.n_samples

\* the best validation loss before epoch k of the history vl (inf before the first)
BestBefore(vl, k) ==
    IF k = 1 THEN Infinity
    ELSE CHOOSE b \in {vl[j] : j \in 1..(k - 1)} : \A j \in 1..(k - 1) : b <= vl[j]

\* epoch k did not strictly improve on the best validation loss before it
NonImproving(vl, k) == vl[k] >= BestBefore(vl, k)

\* the consecutive non-improving epochs that end at epoch e
Trailing(vl, e) ==
    Cardinality({c \in 1..e : \A k \in (e - c + 1)..e : NonImproving(vl, k)})

\* C16: train on a fresh model with patience >= 1 never runs more than epochs
\* epochs, has stopped at the first epoch that ends patience consecutive
\* epochs without a strict improvement of the validation loss, and otherwise
\* has run exactly epochs epochs; the patience counter is the number of
\* epochs since the last strict improvement
C16_EarlyStoppingAtPatience ==
    tr.pc # "idle" =>
        LET m == objs[tr.self]
            vl == m.training_history.val_loss
            n == Len(vl)
        IN /\ n <= tr.epochs
           /\ \A e \in 1..(n - 1) : Trailing(vl, e) < tr.patience
           /\ m.patience_counter = Trailing(vl, n)
           /\ tr.pc \in {"restore", "returned"} =>
                  (n = tr.epochs \/ Trailing(vl, n) >= tr.patience)
           /\ tr.pc \in {"shuffle", "batch", "validate"} =>
                  (n < tr.epochs /\ Trailing(vl, n) < tr.patience)

\* a run that stopped before its last epoch
C16_Witness ==
    /\ tr.pc = "returned"
    /\ Len(objs[tr.self].training_history.val_loss) \in 2..(tr.epochs - 1)
    /\ objs[tr.self].patience_counter = tr.patience

\* C18: in every step of the loop the feature list and the label list have
\* the same length and the pool before the step is a prefix of the pool
\* after it; an augmenting step appends the features and the label of every
\* new sample, in order, at the end of the pool
C18_PoolOnlyGrows ==
    [][/\ Len(al'.current_features) = Len(al'.current_labels)
       /\ SubSeq(al'.current_features, 1, Len(al.current_features)) = al.current_features
       /\ SubSeq(al'.current_labels, 1, Len(al.current_labels)) = al.current_labels
       /\ (al.pc = "generate" /\ al'.pc \in {"train", "return"}) =>
             /\ al'.new_samples # <<>>
             /\ al'.current_features =
                   al.current_features \o
                       [s \in DOMAIN al'.new_samples |-> al'.new_samples[s].features]
             /\ al'.current_labels =
                   al.current_labels \o
                       [s \in DOMAIN al'.new_samples |-> al'.new_samples[s].defect_type]
      ]_vars

\* a pool grown by two augmenting iterations, the label of a new sample
\* already present in the initial pool
C18_Witness ==
    /\ al.pc = "returned"
    /\ Len(al.training_history) = 2
    /\ Len(al.current_labels) > Len(InitialLabels) + 1
    /\ Len(al.current_features) = Len(al.current_labels)
    /\ \E s \in DOMAIN InitialLabels :
          InitialLabels[s] = al.current_labels[Len(al.current_labels)]

\* C17: the loop never stops right after augmenting the pool: when it
\* returns, the model trained last was trained on the whole pool, every
\* synthesized sample included
C17_AugmentedPoolIsRetrained ==
    al.pc \in {"return", "returned"} =>
        /\ al.models # <<>>
        /\ al.models[Len(al.models)].n_samples = Len(al.current_features)

\* an uncertain sample that is a false positive, a false negative, or
\* low-confidence (within 0.2 of 0.5) and correctly classified
FalsePositive(p, y) == p > PHalf /\ y = 0
FalseNegative(p, y) == p <= PHalf /\ y = 1
LowConfidenceCorrect(p, y) ==
    /\ Abs(p - PHalf) * 10 < 2 * PScale
    /\ (p > PHalf) = (y = 1)

\* C20: the targets analyze_uncertain_samples returns hold 'healthy' exactly
\* when some uncertain sample is a false positive, the defect classes
\* anthracnose, blight and rot exactly when some uncertain sample is a false
\* negative, and the mix sunscald, mildew and insect exactly when some
\* uncertain sample is low-confidence but correctly classified
C20_TargetsFollowErrorPattern ==
    al.pc = "generate" =>
        LET p == al.models[al.model].proba
            some(Kind(_, _)) == \E s \in al.uncertain_indices : Kind(p[s], al.y_val[s])
        IN /\ ("healthy" \in al.uncertain_defect_types) = some(FalsePositive)
           /\ ({"anthracnose", "blight", "rot"} \subseteq al.uncertain_defect_types)
                 = some(FalseNegative)
           /\ ({"sunscald", "mildew", "insect"} \subseteq al.uncertain_defect_types)
                 = some(LowConfidenceCorrect)

\* C21: every membership width of every input of a constructed model is at
\* least the floor 0.01, whatever backward passes have run and also after
\* train has restored the best snapshot
C21_WidthsAtLeastFloor ==
    \A id \in 1..Len(objs) :
        \A i \in 1..objs[id].n_inputs :
            \A j \in 1..objs[id].n_membership_functions :
                heap[objs[id].membership_params.widths[i]][j] >= WidthFloor

\* a train call that restored a snapshot and left a width at the floor
C21_Witness ==
    /\ tr.pc = "returned"
    /\ objs[tr.self].best_weights # NoWeights
    /\ Len(objs[tr.self].training_history.loss) > 1
    /\ \E i \in 1..objs[tr.self].n_inputs :
          \E j \in 1..objs[tr.self].n_membership_functions :
             heap[objs[tr.self].membership_params.widths[i]][j] = WidthFloor

\* the strength of the combination (a, b): input 0's function a, input 1's
\* function b and function 0 of every further input (functions 0-based)
GridStrength(deg, a, b) ==
    ProdSeq([i \in DOMAIN deg |-> IF i = 1 THEN deg[1][a + 1]
                                  ELSE IF i = 2 THEN deg[2][b + 1]
                                  ELSE deg[i][1]])

\* C22: for every rule index k < min(n_rules, M*M) the strength
\* generate_rules returns is the product of input 0's degree for function
\* k div M, input 1's degree for function k mod M and function 0's degree of
\* every further input
C22_RuleStrengthIsGridProduct ==
    ret.op = "generate_rules" =>
        LET m == objs[ret.id]
            M == m.n_membership_functions
        IN \A k \in 0..(Min(m.n_rules, M * M) - 1) :
              ret.value[k + 1] = GridStrength(ret.X, k \div M, k % M)

\* a query on three inputs whose third input distinguishes its functions and
\* whose rules all fire
C22_Witness ==
    /\ ret.op = "generate_rules"
    /\ objs[ret.id].n_inputs = 3
    /\ ret.X[3][1] # ret.X[3][2]
    /\ ret.X[2][1] # ret.X[2][2]
    /\ \A k \in 1..4 : ret.value[k] > 0

\* C30: every one of the n_rules rules has the strength of a combination of
\* membership functions, a value in [0, 1]
C30_EveryRuleHasACombination ==
    ret.op = "generate_rules" =>
        LET m == objs[ret.id]
            M == m.n_membership_functions
        IN \A k \in 1..m.n_rules :
              /\ ret.value[k] \in 0..ProdSeq([i \in 1..m.n_inputs |-> DScale])
              /\ \E a \in 0..(M - 1), b \in 0..(M - 1) :
                    ret.value[k] = GridStrength(ret.X, a, b)

\* the sample indices of the batches of an epoch, in the order processed
RECURSIVE BatchIndices(_)
BatchIndices(batches) ==
    IF batches = <<>> THEN <<>>
    ELSE BatchIndices(SubSeq(batches, 1, Len(batches) - 1))
             \o batches[Len(batches)].indices

C24_HistoryCountsEpochsOfCall ==
    tr.pc # "idle" =>
        LET hist == objs[tr.self].training_history
        IN /\ Len(hist.val_loss) = Len(hist.loss)
           /\ Len(hist.accuracy) = Len(hist.loss)
           /\ Len(hist.val_accuracy) = Len(hist.loss)
           /\ tr.pc = "returned" => Len(hist.loss) = tr.epoch

\* C27: a train call finds the early-stopping fields as a new model has
\* them, whatever earlier train calls did, and so a call that stops before
\* its epoch limit has run at least patience epochs
C27_TrainStartsFromScratch ==
    tr.pc # "idle" =>
        /\ tr.entry.patience_counter = 0
        /\ tr.entry.best_val_loss = Infinity
        /\ tr.entry.best_weights = NoWeights
        /\ (tr.pc \in {"restore", "returned"} /\ tr.epoch < tr.epochs) =>
               tr.epoch >= tr.patience

\* C25: for a batch of n samples backward_pass decreases each rule's
\* consequent weights and bias by learning_rate times the mean over the
\* batch, the sum divided by n once, of (pred - target) * rule_strength * [x, 1]
C25_ConsequentStepIsBatchMean ==
    ret.op = "backward_pass" =>
        LET m == objs[ret.id]
            x == ret.X.x
            n == Len(ret.X.y_true)
            sum(i, j) ==
                SumSeq([s \in 1..n |->
                    (ret.proba.y_pred[s] - ret.X.y_true[s] * PScale)
                        * ret.proba.rule_strengths[s][i]
                        * (IF j > m.n_inputs THEN XScale ELSE x[s][j])])
        IN \A i \in 1..m.n_rules : \A j \in 1..(m.n_inputs + 1) :
              ret.value[i][j][1] * n = sum(i, j) * ret.value[i][j][2]

\* C26: the model the pipeline persists as final_anfis_model.pkl is the model
\* the active-learning loop returned, the one whose test performance is
\* reported, and not the initial model
C26_FinalFileHoldsImprovedModel ==
    pl.pc = "done" =>
        /\ pl.final_model = pl.improved_model
        /\ pl.final_model = pl.reported
        /\ pl.final_model # pl.initial_model

\* C28: the best model the loop retains has the parameters and the
\* validation F1 it had when it was measured, whatever later iterations trained
C28_BestModelIsNeverModified ==
    pl.best_model # None =>
        /\ ParamsOf(heap, objs[pl.best_model]) = pl.measured.params
        /\ F1Score(predict_proba(heap, objs[pl.best_model], ValX(2)), ValY)
              = pl.best_performance
        /\ pl.measured.f1_score = pl.best_performance

\* a best model retained from the first iteration while a later iteration
\* trained another model to other parameters
C28_Witness ==
    /\ pl.pc = "done"
    /\ pl.iteration > 1
    /\ pl.best_model # None
    /\ pl.best_model # pl.al_trainer_model
    /\ ParamsOf(heap, objs[pl.al_trainer_model]) # pl.measured.params

\* C29: load_model is all-or-nothing: a load that raises (no file, or a
\* record lacking one of the six keys) leaves every field of every model as
\* it was; a load that returns leaves the model with the six fields of the file
C29_LoadModelIsAllOrNothing ==
    [][call'.op = "load_model" =>
          IF raised' # ""
          THEN /\ objs' = objs
               /\ \A id \in 1..Len(objs) : ParamsOf(heap', objs'[id]) = ParamsOf(heap, objs[id])
          ELSE \E id \in 1..Len(objs') :
                  \A k \in DOMAIN ModelDataKeys :
                      Pickle(heap', objs'[id])[ModelDataKeys[k]]
                          = fs[call'.file][ModelDataKeys[k]]]_vars

====
